---- MODULE Spec2Model ----
(***************************************************************************)
(* The datatracker mirror of scripts/db-from-ietf-datatracker.py: catalog  *)
(* discovery, schema introspection, relation discovery, table creation and *)
(* import, as one sequential state machine.  Strings are TLA+ strings; the *)
(* Python string operations the script uses (split, join, replace, slices) *)
(* are computed character by character.                                    *)
(***************************************************************************)
EXTENDS Integers, Sequences, FiniteSets, TLC

(***************************************************************************)
(* Bounds of the model.                                                    *)
(***************************************************************************)
\* longest record stream the server holds for the document endpoint
MaxRecords == 2
\* number of objects the server puts in one page
PageSize == 1

(***************************************************************************)
(* Python values and string operations.                                    *)
(***************************************************************************)
\* Python's None where the script stores it in a string-valued slot
\* (column type, sort_by, primary_key, uri_col, meta["next"]).
None == "<None>"

\* JSON values of a record field: null, string, integer, list of strings.
JNull     == [kind |-> "null", s |-> "",  l |-> <<>>]
JStr(x)   == [kind |-> "str",  s |-> x,   l |-> <<>>]
JInt(x)   == [kind |-> "int",  s |-> x,   l |-> <<>>]
JBool(x)  == [kind |-> "bool", s |-> x,   l |-> <<>>]
JList(xs) == [kind |-> "list", s |-> "",  l |-> xs]

\* s.split(sep) for a one-character separator
RECURSIVE SplitFrom(_, _, _, _)
SplitFrom(s, sep, i, cur) ==
    IF i > Len(s) THEN <<cur>>
    ELSE IF SubSeq(s, i, i) = sep
         THEN <<cur>> \o SplitFrom(s, sep, i + 1, "")
         ELSE SplitFrom(s, sep, i + 1, cur \o SubSeq(s, i, i))
Split(s, sep) == SplitFrom(s, sep, 1, "")

\* sep.join(parts)
RECURSIVE Join(_, _)
Join(sep, parts) ==
    IF Len(parts) = 0 THEN ""
    ELSE IF Len(parts) = 1 THEN parts[1]
         ELSE parts[1] \o sep \o Join(sep, Tail(parts))

\* s.replace(a, b) for one-character a and b
RECURSIVE Replace(_, _, _)
Replace(s, a, b) ==
    IF Len(s) = 0 THEN ""
    ELSE (IF SubSeq(s, 1, 1) = a THEN b ELSE SubSeq(s, 1, 1))
         \o Replace(SubSeq(s, 2, Len(s)), a, b)

\* q[lo:-hi] on a string or a list (lo leading and hi trailing items dropped)
Slice(q, lo, hi) == SubSeq(q, lo + 1, Len(q) - hi)

\* sub in s
Contains(sub, s) ==
    \E i \in 1..(Len(s) - Len(sub) + 1) : SubSeq(s, i, i + Len(sub) - 1) = sub

\* parts[-1] of a non-empty list
Last(parts) == parts[Len(parts)]


\* m with key k bound to v (dict assignment m[k] = v)
MapPut(m, k, v) == [x \in (DOMAIN m) \cup {k} |-> IF x = k THEN v ELSE m[x]]

\* the empty dict
EmptyMap == [x \in {} |-> None]

\* the decimal numeral of a small page index
Numeral(n) == <<"0", "1", "2", "3", "4", "5", "6", "7", "8", "9">>[n + 1]

(***************************************************************************)
(* The static mirror table (the entries the model's server can name).      *)
(***************************************************************************)
endpoints_to_mirror ==
    [e \in {"/api/v1/doc/document/", "/api/v1/doc/state/", "/api/v1/nomcom/feedback/",
            "/api/v1/person/historicalperson/"} |->
        CASE e = "/api/v1/doc/document/"    -> [mirror |-> TRUE,  uri_col |-> "name"]
          [] e = "/api/v1/doc/state/"       -> [mirror |-> TRUE,  uri_col |-> "id"]
          [] e = "/api/v1/nomcom/feedback/" -> [mirror |-> FALSE, uri_col |-> None]
          [] e = "/api/v1/person/historicalperson/"
                                            -> [mirror |-> TRUE,  uri_col |-> "history_id"]]

(***************************************************************************)
(* The live API the run talks to: catalog, schema documents and records.   *)
(***************************************************************************)
\* an endpoint path the live catalog may expose that the table does not list
UnconfiguredEndpoint == "/api/v1/doc/newthing/"

\* the top-level catalog: the list_endpoint of each category, in JSON order
TopLevel == <<"/api/v1/doc/", "/api/v1/nomcom/", "/api/v1/person/">>

\* the per-category listings the server may serve
Catalogs ==
    { [c \in {"/api/v1/doc/", "/api/v1/nomcom/", "/api/v1/person/"} |->
          CASE c = "/api/v1/doc/"    -> docs
            [] c = "/api/v1/nomcom/" -> <<"/api/v1/nomcom/feedback/">>
            [] OTHER                 -> <<"/api/v1/person/historicalperson/">>] :
      docs \in { <<"/api/v1/doc/state/", "/api/v1/doc/document/">>,
                 <<"/api/v1/doc/document/", "/api/v1/doc/state/">>,
                 <<"/api/v1/doc/state/", UnconfiguredEndpoint, "/api/v1/doc/document/">> } }

\* one field of a schema document
Field(n, t, u, p, r) ==
    [name |-> n, type |-> t, unique |-> u, primary_key |-> p, related_type |-> r]

\* the declared types the state endpoint's id field may have ("float" is a
\* type tag the script has no case for)
StateIdTypes == {"integer", "boolean", "related", "float"}

\* the schema variants: the declared type of state.id and the "ordering" list
\* of the state schema (absent when empty; "slug" names no field of it)
SchemaVariants ==
    { <<t, <<>>>> : t \in StateIdTypes }
    \cup { <<"integer", <<"slug">>>>, <<"integer", <<"resource_uri">>>> }

\* the mirrored endpoints the server holds schema documents and records for
ServedEndpoints ==
    {"/api/v1/doc/document/", "/api/v1/doc/state/", "/api/v1/person/historicalperson/"}

\* the schema documents, given the declared type of state.id and the ordering
\* list of the state schema
SchemaDocs(idType, stateOrdering) ==
    [e \in ServedEndpoints |->
        IF e = "/api/v1/doc/state/"
        THEN [has_ordering |-> stateOrdering # <<>>, ordering |-> stateOrdering,
              fields |-> << Field("id", idType, TRUE, TRUE, "to_one"),
                            Field("resource_uri", "string", FALSE, FALSE, None) >>]
        ELSE IF e = "/api/v1/person/historicalperson/"
        THEN [has_ordering |-> TRUE, ordering |-> <<"history_id">>,
              fields |-> << Field("history_id", "integer", TRUE, TRUE, None),
                            Field("time", "datetime", FALSE, FALSE, None),
                            Field("resource_uri", "string", FALSE, FALSE, None) >>]
        ELSE [has_ordering |-> TRUE, ordering |-> <<"name">>,
              fields |-> << Field("id", "integer", TRUE, TRUE, None),
                            Field("name", "string", TRUE, FALSE, None),
                            Field("state", "related", FALSE, FALSE, "to_one"),
                            Field("states", "related", FALSE, FALSE, "to_many"),
                            Field("resource_uri", "string", FALSE, FALSE, None) >>]]

\* the values a document's to_one field may carry
ToOneValues ==
    { JNull, JStr("/api/v1/doc/state/5/"), JStr("/api/v1/nomcom/feedback/7/") }

\* the values a document's to_many field may carry
ToManyValues ==
    { JList(<<>>),
      JList(<<"/api/v1/doc/state/5/", "/api/v1/doc/state/6/">>),
      JList(<<"/api/v1/nomcom/feedback/7/">>) }

\* the i-th document record with the given relation values
DocumentRecord(i, one, many) ==
    [f \in {"id", "name", "state", "states", "resource_uri"} |->
        CASE f = "id"     -> JInt(Numeral(i))
          [] f = "name"   -> JStr("draft-" \o Numeral(i))
          [] f = "state"  -> one
          [] f = "states" -> many
          [] OTHER        -> JStr("/api/v1/doc/document/draft-" \o Numeral(i) \o "/")]

\* the record streams the document endpoint may hold
DocumentStreams ==
    UNION { { [i \in 1..n |-> DocumentRecord(i, rel[i][1], rel[i][2])] :
              rel \in [1..n -> ToOneValues \X ToManyValues] } : n \in 0..MaxRecords }

\* the single record of the state endpoint, given the declared type of id
StateStream(idType) ==
    << [f \in {"id", "resource_uri"} |->
          IF f = "resource_uri" THEN JStr("/api/v1/doc/state/5/")
          ELSE CASE idType = "integer" -> JInt("5")
                 [] idType = "boolean" -> JBool("true")
                 [] idType = "float"   -> JStr("5.0")
                 [] OTHER              -> JStr("/api/v1/doc/document/draft-1/")] >>

\* the two records of the historicalperson endpoint
HistoryStream ==
    [i \in 1..2 |->
        [f \in {"history_id", "time", "resource_uri"} |->
            CASE f = "history_id" -> JInt(Numeral(i))
              [] f = "time"       -> IF i = 1 THEN JStr("2020-01-01T00:00:00+02:00") ELSE JNull
              [] OTHER            -> JStr("/api/v1/person/historicalperson/"
                                          \o Numeral(i) \o "/")]]

\* the UTC offsets, in minutes, the machine's local time zone may have
LocalOffsets == {0}

\* the worlds a run may face: the live API and the machine's time zone
Environments ==
    { [tz      |-> z,
       catalog |-> c,
       schema  |-> SchemaDocs(v[1], v[2]),
       records |-> [e \in ServedEndpoints |->
                       CASE e = "/api/v1/doc/state/"               -> StateStream(v[1])
                         [] e = "/api/v1/person/historicalperson/" -> HistoryStream
                         [] OTHER                                  -> d]] :
      z \in LocalOffsets, c \in Catalogs, v \in SchemaVariants, d \in DocumentStreams }

\* number of pages a stream of n records is served in
NumPages(n) == IF n = 0 THEN 1 ELSE (n + PageSize - 1) \div PageSize

\* the request URI of page k of endpoint e, q being the query the client sent
PageUri(e, q, k) == e \o q \o (IF k = 0 THEN "" ELSE "&offset=" \o Numeral(k))

\* the queries a client may put on an endpoint of the given schema document
Queries(doc) ==
    {"?limit=500"} \cup { "?limit=500&order_by=" \o doc.fields[i].name : i \in 1..Len(doc.fields) }

\* every page the server srv serves: its URI, its next link and its objects
ServerPages(srv) ==
    { [uri     |-> PageUri(e, q, k),
       next    |-> IF k + 1 < NumPages(Len(srv.records[e]))
                   THEN PageUri(e, q, k + 1) ELSE None,
       objects |-> SubSeq(srv.records[e], k * PageSize + 1,
                          IF (k + 1) * PageSize < Len(srv.records[e])
                          THEN (k + 1) * PageSize ELSE Len(srv.records[e]))] :
      <<e, q, k>> \in UNION { { <<e2, q2, k2>> :
                                q2 \in Queries(srv.schema[e2]),
                                k2 \in 0..(NumPages(Len(srv.records[e2])) - 1) } :
                              e2 \in DOMAIN srv.records } }

\* the page served for a URI
ServerPage(srv, uri) == CHOOSE p \in ServerPages(srv) : p.uri = uri

\* whether the server has the URI at all
Served(srv, uri) == \E p \in ServerPages(srv) : p.uri = uri

(***************************************************************************)
(* State of one run.                                                       *)
(***************************************************************************)
VARIABLES
    env,     \* the live API this run talks to (fixed during the run)
    pc,         \* position of the main script
    status,     \* "running", "exit0", "exit1" (sys.exit(1)) or "exception"
    requests,   \* every GET issued so far, in order: [uri, code]
    cache,      \* Datatracker.cache: uri -> [next, objs]
    schemas,    \* schemas: endpoint -> schema
    endpoints,  \* endpoints: the mirrored endpoints in discovery order
    reported,   \* endpoints for which "mirroring not configured" was printed
    cats,       \* api_endpoints: categories not yet fetched
    yielded,    \* api_endpoints: endpoints of the current category not yet yielded
    k,          \* index into endpoints of the loop the script is in
    gen,        \* the fetch_multi generator being consumed
    ddl,        \* statements executed by create_db_table, in order
    val,        \* import_db_table: base rows buffered for the current endpoint
    pending,    \* rows inserted in the open transaction
    committed,  \* rows in the committed database
    prev,       \* what an earlier run over the same server compiled, if any
    coerced,    \* the successive results of the importer's datetime coercion
    imap,       \* mail archiver: the folders and messages of the IMAP server
    disk,       \* mail archiver: the archive directory
    dl,         \* mail archiver: the frame of download_all
    tasks,      \* mail archiver: the fetch_folder calls submitted to the pool
    runs        \* mail archiver: the run in progress and what a killed run left

\* the variables of the mail archiver (scripts/db-from-ietf-mailarchive.py)
archive == << imap, disk, dl, tasks, runs >>

vars == << env, pc, status, requests, cache, schemas, endpoints, reported,
           cats, yielded, k, gen, ddl, val, pending, committed, prev, coerced,
           archive >>

\* the variables of the datatracker mirror
mirror == << env, pc, status, requests, cache, schemas, endpoints, reported,
             cats, yielded, k, gen, ddl, val, pending, committed, prev, coerced >>

\* the value of the archiver's variables where the archiver is not run
Unused == "<unused>"

\* the mail archiver is not run
NoArchive ==
    /\ imap = Unused /\ disk = Unused /\ dl = Unused /\ tasks = Unused /\ runs = Unused

\* no earlier run
NoRun == [run |-> 0]

\* a generator that has not been started on uri (or has run to its end)
NewGen(uri) == [uri |-> uri, next |-> None, objs |-> <<>>, idx |-> 0,
                loaded |-> FALSE, miss |-> FALSE]

Init ==
    /\ env \in Environments
    /\ pc = "top"
    /\ status = "running"
    /\ requests = <<>>
    /\ cache = EmptyMap
    /\ schemas = EmptyMap
    /\ endpoints = <<>>
    /\ reported = <<>>
    /\ cats = <<>>
    /\ yielded = <<>>
    /\ k = 0
    /\ gen = NewGen(None)
    /\ ddl = <<>>
    /\ val = <<>>
    /\ pending = <<>>
    /\ committed = <<>>
    /\ prev = NoRun
    /\ coerced = <<>>
    /\ NoArchive

(***************************************************************************)
(* HTTP.                                                                   *)
(***************************************************************************)
\* the status codes a GET may come back with, for a URI the server knows or not
StatusCodes(known) == IF known THEN {200, 500} ELSE {404}

\* session.get: the request is logged with the code it got
Get(uri, code) == requests' = Append(requests, [uri |-> uri, code |-> code])

\* a failure handler that prints and carries on
Exit1Ignored == UNCHANGED status

\* print(...); sys.exit(1)
Exit1 == status' = "exit1"

(***************************************************************************)
(* Datatracker.api_endpoints and the discovery loop of the main script.    *)
(***************************************************************************)
\* endpoint in endpoints_to_mirror
IsConfigured(endpoint) == endpoint \in DOMAIN endpoints_to_mirror

\* the name of the last field declared primary_key, or None
RECURSIVE PrimaryKeyOf(_, _)
PrimaryKeyOf(fields, acc) ==
    IF fields = <<>> THEN acc
    ELSE PrimaryKeyOf(Tail(fields),
                      IF Head(fields).primary_key THEN Head(fields).name ELSE acc)

\* a table name that keeps the separator of the trailing slash
TableNameTrailing(api_endpoint) == "ietf_dt" \o Slice(Replace(api_endpoint, "/", "_"), 7, 0)

\* the table name of an endpoint path
TableName(api_endpoint) == "ietf_dt" \o Slice(Replace(api_endpoint, "/", "_"), 7, 1)

\* the result dict of schema_for_endpoint for a schema document
schema_for_endpoint(api_endpoint, doc) ==
    [api_endpoint |-> api_endpoint,
     table        |-> TableName(api_endpoint),
     sort_by      |-> IF Contains("historical", api_endpoint) THEN None
                      ELSE IF doc.has_ordering THEN doc.ordering[1] ELSE None,
     primary_key  |-> PrimaryKeyOf(doc.fields, None),
     columns      |-> [i \in 1..Len(doc.fields) |->
                         [name    |-> doc.fields[i].name,
                          type    |-> IF doc.fields[i].type = "related"
                                      THEN doc.fields[i].related_type
                                      ELSE doc.fields[i].type,
                          unique  |-> doc.fields[i].unique,
                          primary |-> doc.fields[i].primary_key]],
     to_one       |-> EmptyMap,
     to_many      |-> EmptyMap]

\* r1 = session.get(api/v1/)
FetchTopLevel ==
    /\ status = "running" /\ pc = "top"
    /\ \E code \in StatusCodes(TRUE) :
         /\ Get("api/v1/", code)
         /\ IF code = 200
            THEN /\ cats' = TopLevel
                 /\ pc' = "catalog"
                 /\ UNCHANGED status
            ELSE /\ Exit1
                 /\ UNCHANGED << cats, pc >>
    /\ UNCHANGED << env, prev, coerced, archive, cache, schemas, endpoints, reported, yielded, k, gen,
                    ddl, val, pending, committed >>

\* r2 = session.get(category list_endpoint), when the previous category is used up
FetchCategory ==
    /\ status = "running" /\ pc = "catalog"
    /\ yielded = <<>> /\ cats # <<>>
    /\ \E code \in StatusCodes(Head(cats) \in DOMAIN env.catalog) :
         /\ Get(Head(cats), code)
         /\ IF code = 200
            THEN /\ yielded' = env.catalog[Head(cats)]
                 /\ cats' = Tail(cats)
                 /\ UNCHANGED status
            ELSE /\ Exit1
                 /\ UNCHANGED << yielded, cats >>
    /\ UNCHANGED << env, prev, coerced, archive, pc, cache, schemas, endpoints, reported, k, gen,
                    ddl, val, pending, committed >>

\* one pass of "for endpoint in dt.api_endpoints()": an endpoint the table lacks
DiscoverUnconfigured ==
    /\ status = "running" /\ pc = "catalog"
    /\ yielded # <<>>
    /\ ~IsConfigured(Head(yielded))
    /\ reported' = Append(reported, Head(yielded))
    /\ yielded' = Tail(yielded)
    /\ UNCHANGED << env, prev, coerced, archive, pc, status, requests, cache, schemas, endpoints, cats,
                    k, gen, ddl, val, pending, committed >>

\* the same pass for a configured endpoint that is not mirrored
DiscoverSkipped ==
    /\ status = "running" /\ pc = "catalog"
    /\ yielded # <<>>
    /\ IsConfigured(Head(yielded))
    /\ ~endpoints_to_mirror[Head(yielded)].mirror
    /\ yielded' = Tail(yielded)
    /\ UNCHANGED << env, prev, coerced, archive, pc, status, requests, cache, schemas, endpoints, reported,
                    cats, k, gen, ddl, val, pending, committed >>

\* the same pass for a mirrored endpoint: append it and fetch its schema
DiscoverMirrored ==
    /\ status = "running" /\ pc = "catalog"
    /\ yielded # <<>>
    /\ IsConfigured(Head(yielded))
    /\ endpoints_to_mirror[Head(yielded)].mirror
    /\ LET endpoint == Head(yielded)
           uri      == endpoint \o "schema/"
       IN  /\ endpoints' = Append(endpoints, endpoint)
           /\ \E code \in StatusCodes(endpoint \in DOMAIN env.schema) :
                /\ Get(uri, code)
                /\ IF code = 200
                   THEN /\ schemas' = MapPut(schemas, endpoint,
                                             schema_for_endpoint(endpoint, env.schema[endpoint]))
                        /\ yielded' = Tail(yielded)
                        /\ UNCHANGED status
                   ELSE /\ Exit1
                        /\ UNCHANGED << schemas, yielded >>
    /\ UNCHANGED << env, prev, coerced, archive, pc, cache, reported, cats, k, gen, ddl, val, pending, committed >>

\* api_endpoints is exhausted: the script goes on to relation discovery
EndCatalog ==
    /\ status = "running" /\ pc = "catalog"
    /\ yielded = <<>> /\ cats = <<>>
    /\ pc' = "discover"
    /\ k' = 1
    /\ UNCHANGED << env, prev, coerced, archive, status, requests, cache, schemas, endpoints, reported,
                    cats, yielded, gen, ddl, val, pending, committed >>

(***************************************************************************)
(* Datatracker.fetch_multi.                                                *)
(***************************************************************************)
\* a lookup that never finds the URI
CacheNever(c, uri) == FALSE

\* uri in self.cache
CacheHit(c, uri) == uri \in DOMAIN c

\* self.cache[uri] = (meta, objs), done when a fetched page has been yielded whole
CacheStore(c, g) ==
    IF g.loaded /\ g.miss THEN MapPut(c, g.uri, [next |-> g.next, objs |-> g.objs]) ELSE c

\* a loop that goes back to the URI it started from
NextUriSame(g) == g.uri

\* the URI the while loop looks at once the page in hand (if any) is finished
NextUri(g) == IF g.loaded THEN g.next ELSE g.uri

\* the generator holding a page
LoadedGen(uri, next, objs, miss) ==
    [uri |-> uri, next |-> next, objs |-> objs, idx |-> 0, loaded |-> TRUE, miss |-> miss]

\* a generator that stores a page in the cache as soon as it is fetched
FetchPageStoring ==
    /\ status = "running" /\ pc \in {"scan", "import"}
    /\ gen.idx = Len(gen.objs)
    /\ gen.loaded \/ gen.uri # None
    /\ LET cache1 == CacheStore(cache, gen)
           uri    == NextUri(gen)
       IN  /\ cache' = IF uri # None /\ Served(env, uri)
                       THEN MapPut(cache1, uri, [next |-> ServerPage(env, uri).next,
                                                 objs |-> ServerPage(env, uri).objects])
                       ELSE cache1
           /\ IF uri = None
              THEN /\ gen' = NewGen(None)
                   /\ UNCHANGED << requests, status >>
              ELSE IF CacheHit(cache1, uri)
              THEN /\ gen' = LoadedGen(uri, cache1[uri].next, cache1[uri].objs, FALSE)
                   /\ UNCHANGED << requests, status >>
              ELSE \E code \in StatusCodes(Served(env, uri)) :
                     /\ Get(uri, code)
                     /\ IF code = 200
                        THEN /\ gen' = LoadedGen(uri, ServerPage(env, uri).next,
                                                 ServerPage(env, uri).objects, TRUE)
                             /\ UNCHANGED status
                        ELSE /\ Exit1
                             /\ gen' = [gen EXCEPT !.uri = uri, !.loaded = FALSE,
                                                   !.objs = <<>>, !.idx = 0]
    /\ UNCHANGED << env, prev, coerced, archive, pc, schemas, endpoints, reported, cats, yielded, k,
                    ddl, val, pending, committed >>

\* the generator is resumed with no object left in hand: it finishes the page
\* (storing it when it came from the network) and takes the next one from
\* the cache or the network, or ends
FetchPage ==
    /\ status = "running" /\ pc \in {"scan", "import"}
    /\ gen.idx = Len(gen.objs)
    /\ gen.loaded \/ gen.uri # None
    /\ LET cache1 == CacheStore(cache, gen)
           uri    == NextUri(gen)
       IN  /\ cache' = cache1
           /\ IF uri = None
              THEN /\ gen' = NewGen(None)
                   /\ UNCHANGED << requests, status >>
              ELSE IF CacheHit(cache1, uri)
              THEN /\ gen' = LoadedGen(uri, cache1[uri].next, cache1[uri].objs, FALSE)
                   /\ UNCHANGED << requests, status >>
              ELSE \E code \in StatusCodes(Served(env, uri)) :
                     /\ Get(uri, code)
                     /\ IF code = 200
                        THEN /\ gen' = LoadedGen(uri, ServerPage(env, uri).next,
                                                 ServerPage(env, uri).objects, TRUE)
                             /\ UNCHANGED status
                        ELSE /\ Exit1
                             /\ gen' = [gen EXCEPT !.uri = uri, !.loaded = FALSE,
                                                   !.objs = <<>>, !.idx = 0]
    /\ UNCHANGED << env, prev, coerced, archive, pc, schemas, endpoints, reported, cats, yielded, k,
                    ddl, val, pending, committed >>

\* the generator has run to its end (StopIteration)
Exhausted(g) == ~g.loaded /\ g.uri = None

\* the generator has an object to yield
HasItem(g) == g.loaded /\ g.idx < Len(g.objs)

\* the object the generator yields next
Item(g) == g.objs[g.idx + 1]

(***************************************************************************)
(* Relation discovery (main script).                                       *)
(***************************************************************************)
\* a test that takes any sort_by for an ordering
OrderedBySortBy(schema) == schema.sort_by # None

\* whether some column is named as the schema's sort_by
Ordered(schema) ==
    \E i \in 1..Len(schema.columns) : schema.columns[i].name = schema.sort_by

\* the URI relation discovery streams an endpoint from
DiscoveryUri(schema, endpoint) ==
    IF Ordered(schema) THEN endpoint \o "?limit=500&order_by=" \o schema.sort_by
    ELSE endpoint \o "?limit=500"

\* the endpoint a resource URL belongs to
RefersToEndpoint(url) == Join("/", Slice(Split(url, "/"), 0, 2)) \o "/"

\* the table of the endpoint a resource URL belongs to
RefersToTable(url) == "ietf_dt_" \o Join("_", Slice(Split(url, "/"), 3, 2))

\* a test that takes no value for a reference
HasValueNever(v) == FALSE

\* a test that takes any value, null included, for a reference
HasValueAlways(v) == TRUE

\* item[name] is not None and item[name] != ""
HasValue(v) == v.kind # "null" /\ ~(v.kind = "str" /\ v.s = "")

\* the body of "for column in schema['columns'].values()" on one item,
\* from column i on; acc carries to_one, to_many and found_all
RECURSIVE ScanColumns(_, _, _, _)
ScanColumns(columns, i, item, acc) ==
    IF i > Len(columns) THEN acc
    ELSE LET c == columns[i]
             v == item[c.name]
             one1 == IF c.type = "to_one" /\ c.name \notin DOMAIN acc.to_one /\ HasValue(v)
                     THEN MapPut(acc.to_one, c.name,
                                 [refers_to_endpoint |-> RefersToEndpoint(v.s),
                                  refers_to_table    |-> RefersToTable(v.s)])
                     ELSE acc.to_one
             many1 == IF c.type = "to_many" /\ c.name \notin DOMAIN acc.to_many
                         /\ HasValue(v) /\ Len(v.l) > 0
                      THEN MapPut(acc.to_many, c.name,
                                  [refers_to_endpoint |-> RefersToEndpoint(v.l[1]),
                                   refers_to_table    |-> RefersToTable(v.l[1])])
                      ELSE acc.to_many
             found1 == IF \/ c.type = "to_one" /\ c.name \notin DOMAIN one1
                          \/ c.type = "to_many" /\ c.name \notin DOMAIN many1
                       THEN FALSE ELSE acc.found_all
         IN  ScanColumns(columns, i + 1, item,
                         [to_one |-> one1, to_many |-> many1, found_all |-> found1])

\* a loop after the scan that leaves every column as it is
DowngradeNothing(schema) == schema

\* a loop after the scan that looks at the to_one columns only
DowngradeToOne(schema) ==
    [schema EXCEPT !.columns =
        [i \in 1..Len(schema.columns) |->
            IF /\ schema.columns[i].type = "to_one"
               /\ schema.columns[i].name \notin DOMAIN schema.to_one
            THEN [schema.columns[i] EXCEPT !.type = None]
            ELSE schema.columns[i]]]

\* the loop after the scan: relation columns never resolved become unused
Downgrade(schema) ==
    [schema EXCEPT !.columns =
        [i \in 1..Len(schema.columns) |->
            IF \/ schema.columns[i].type = "to_one"
                  /\ schema.columns[i].name \notin DOMAIN schema.to_one
               \/ schema.columns[i].type = "to_many"
                  /\ schema.columns[i].name \notin DOMAIN schema.to_many
            THEN [schema.columns[i] EXCEPT !.type = None]
            ELSE schema.columns[i]]]

\* top of "for endpoint in endpoints" of relation discovery
StartDiscovery ==
    /\ status = "running" /\ pc = "discover"
    /\ k <= Len(endpoints)
    /\ LET endpoint == endpoints[k]
           schema   == [schemas[endpoint] EXCEPT !.to_one = EmptyMap, !.to_many = EmptyMap]
       IN  /\ schemas' = [schemas EXCEPT ![endpoint] = schema]
           /\ gen' = NewGen(DiscoveryUri(schema, endpoint))
    /\ pc' = "scan"
    /\ UNCHANGED << env, prev, coerced, archive, status, requests, cache, endpoints, reported, cats, yielded,
                    k, ddl, val, pending, committed >>

\* dict.update: m with the entries of n put over it
MapUpdate(m, n) ==
    [x \in (DOMAIN m) \cup (DOMAIN n) |-> IF x \in DOMAIN n THEN n[x] ELSE m[x]]

\* a scan that goes through the whole stream and lets the latest record
\* with a value decide the target of a column
ScanItemLatest ==
    /\ status = "running" /\ pc = "scan"
    /\ HasItem(gen)
    /\ LET endpoint == endpoints[k]
           schema   == schemas[endpoint]
           res      == ScanColumns(schema.columns, 1, Item(gen),
                                   [to_one |-> EmptyMap, to_many |-> EmptyMap,
                                    found_all |-> TRUE])
       IN  /\ schemas' = [schemas EXCEPT
                            ![endpoint].to_one = MapUpdate(schema.to_one, res.to_one),
                            ![endpoint].to_many = MapUpdate(schema.to_many, res.to_many)]
           /\ gen' = [gen EXCEPT !.idx = gen.idx + 1]
    /\ UNCHANGED << env, prev, coerced, archive, status, requests, cache, endpoints, reported,
                    cats, yielded, pc, k, ddl, val, pending, committed >>

\* one pass of "for item in dt.fetch_multi(uri)"; when every relation column
\* is resolved the loop breaks and the unresolved-column loop runs (there is
\* then nothing to downgrade)
ScanItem ==
    /\ status = "running" /\ pc = "scan"
    /\ HasItem(gen)
    /\ LET endpoint == endpoints[k]
           schema   == schemas[endpoint]
           res      == ScanColumns(schema.columns, 1, Item(gen),
                                   [to_one |-> schema.to_one, to_many |-> schema.to_many,
                                    found_all |-> TRUE])
           schema1  == [schema EXCEPT !.to_one = res.to_one, !.to_many = res.to_many]
       IN  IF res.found_all
           THEN /\ schemas' = [schemas EXCEPT ![endpoint] = Downgrade(schema1)]
                /\ gen' = NewGen(None)
                /\ pc' = "discover"
                /\ k' = k + 1
           ELSE /\ schemas' = [schemas EXCEPT ![endpoint] = schema1]
                /\ gen' = [gen EXCEPT !.idx = gen.idx + 1]
                /\ UNCHANGED << pc, k >>
    /\ UNCHANGED << env, prev, coerced, archive, status, requests, cache, endpoints, reported, cats, yielded,
                    ddl, val, pending, committed >>

\* the stream ended before every relation column was resolved
EndScan ==
    /\ status = "running" /\ pc = "scan"
    /\ Exhausted(gen)
    /\ schemas' = [schemas EXCEPT ![endpoints[k]] = Downgrade(schemas[endpoints[k]])]
    /\ pc' = "discover"
    /\ k' = k + 1
    /\ UNCHANGED << env, prev, coerced, archive, status, requests, cache, endpoints, reported, cats, yielded,
                    gen, ddl, val, pending, committed >>

\* a script that goes on to create the tables before the loop is over
EndDiscoveryEarly ==
    /\ status = "running" /\ pc = "discover"
    /\ pc' = "create"
    /\ k' = 1
    /\ UNCHANGED << env, prev, coerced, archive, status, requests, cache, schemas, endpoints,
                    reported, cats, yielded, gen, ddl, val, pending, committed >>

\* relation discovery is over: the script goes on to create the tables
EndDiscovery ==
    /\ status = "running" /\ pc = "discover"
    /\ k > Len(endpoints)
    /\ pc' = "create"
    /\ k' = 1
    /\ UNCHANGED << env, prev, coerced, archive, status, requests, cache, schemas, endpoints, reported,
                    cats, yielded, gen, ddl, val, pending, committed >>

(***************************************************************************)
(* sql_type_for and create_db_table.                                       *)
(***************************************************************************)
\* whether the schema has a column of that name
HasColumn(schema, name) ==
    \E i \in 1..Len(schema.columns) : schema.columns[i].name = name

\* schema["columns"][name]
ColumnNamed(schema, name) ==
    schema.columns[CHOOSE i \in 1..Len(schema.columns) : schema.columns[i].name = name]

\* the declared primary key taken for the key column of a mirrored endpoint
UriColDeclared(endpoint) ==
    IF endpoint \in DOMAIN schemas /\ schemas[endpoint].primary_key # None
    THEN schemas[endpoint].primary_key
    ELSE endpoints_to_mirror[endpoint].uri_col

\* endpoints_to_mirror[endpoint]['uri_col']
UriCol(endpoint) == endpoints_to_mirror[endpoint].uri_col

\* the column types create_db_table compiles to TEXT
TextTypes == {"string", "datetime", "date", "timedelta"}

\* a mapping to INTEGER that also takes the float tag
IntegerTypesWithFloat == {"integer", "boolean", "float"}

\* the column types create_db_table compiles to INTEGER
IntegerTypes == {"integer", "boolean"}

\* the types sql_type_for maps to INTEGER
SqlIntegerTypes == {"integer", "boolen"}

\* sql_type_for: "TEXT" or "INTEGER"; "exit1" when it calls sys.exit(1),
\* "exception" when a dict lookup raises KeyError
sql_type_for(schms, endpoint, column) ==
    IF endpoint \notin DOMAIN schms THEN "exception"
    ELSE IF ~HasColumn(schms[endpoint], column) THEN "exception"
    ELSE LET schema_type == ColumnNamed(schms[endpoint], column).type
         IN  IF schema_type \in TextTypes THEN "TEXT"
             ELSE IF schema_type \in SqlIntegerTypes THEN "INTEGER"
             ELSE "exit1"

\* one column of a CREATE TABLE statement
SqlColumn(name, type, unique, primary) ==
    [name |-> name, type |-> type, unique |-> unique, primary |-> primary]

\* one FOREIGN KEY (column) REFERENCES table (ref) clause
ForeignKey(column, table, ref) == [column |-> column, table |-> table, ref |-> ref]

\* a statement handed to db_cursor.execute
Statement(kind, table, columns, foreign) ==
    [kind |-> kind, table |-> table, columns |-> columns, foreign |-> foreign]

\* the name of the source-key column of a junction table
ColumnCurrent(schema) == Last(Split(schema.table, "_"))

\* column_sql with the UNIQUE and PRIMARY KEY suffixes of lines 370-373
Suffixed(endpoint, c, type) ==
    SqlColumn(c.name, type, c.unique, c.name = UriCol(endpoint))

\* an overwrite that marks the column unused, whatever type is given
SetTypeNone(schms, endpoint, i, type) ==
    [schms EXCEPT ![endpoint].columns[i].type = None]

\* schms with the type of one column of one endpoint overwritten
SetType(schms, endpoint, i, type) ==
    [schms EXCEPT ![endpoint].columns[i].type = type]

\* a to_one branch that leaves the type of a column with an unmirrored target alone
CreateToOneKeepsType(endpoint, i, acc) ==
    LET schema        == acc.schemas[endpoint]
        c             == schema.columns[i]
        foreign_table == schema.to_one[c.name].refers_to_table
        foreign_endpt == schema.to_one[c.name].refers_to_endpoint
    IN  IF c.name \notin DOMAIN schema.to_one \/ ~IsConfigured(foreign_endpt)
        THEN [acc EXCEPT !.outcome = "exception"]
        ELSE IF foreign_endpt \in DOMAIN acc.schemas
        THEN LET t == sql_type_for(acc.schemas, foreign_endpt, UriCol(foreign_endpt))
             IN  IF t \in {"exit1", "exception"}
                 THEN [acc EXCEPT !.outcome = t]
                 ELSE [acc EXCEPT
                         !.foreign = Append(@, ForeignKey(c.name, foreign_table,
                                                          UriCol(foreign_endpt))),
                         !.columns = Append(@, Suffixed(endpoint, c, t))]
        ELSE [acc EXCEPT !.columns = Append(@, Suffixed(endpoint, c, "TEXT"))]

\* the to_one branch of create_db_table for column i
CreateToOne(endpoint, i, acc) ==
    LET schema        == acc.schemas[endpoint]
        c             == schema.columns[i]
        foreign_table == schema.to_one[c.name].refers_to_table
        foreign_endpt == schema.to_one[c.name].refers_to_endpoint
    IN  IF c.name \notin DOMAIN schema.to_one \/ ~IsConfigured(foreign_endpt)
        THEN [acc EXCEPT !.outcome = "exception"]
        ELSE IF foreign_endpt \in DOMAIN acc.schemas
        THEN LET t == sql_type_for(acc.schemas, foreign_endpt, UriCol(foreign_endpt))
             IN  IF t \in {"exit1", "exception"}
                 THEN [acc EXCEPT !.outcome = t]
                 ELSE [acc EXCEPT
                         !.foreign = Append(@, ForeignKey(c.name, foreign_table,
                                                          UriCol(foreign_endpt))),
                         !.columns = Append(@, Suffixed(endpoint, c, t))]
        ELSE [acc EXCEPT
                !.schemas = SetType(acc.schemas, endpoint, i, "string"),
                !.columns = Append(@, Suffixed(endpoint, c, "TEXT"))]

\* sqlite refuses a CREATE TABLE that names a column twice ("duplicate column
\* name"): db_cursor.execute raises OperationalError
Rejected(names) == \E i, j \in 1..Len(names) : i # j /\ names[i] = names[j]

\* the to_many branch of create_db_table for column i; the statement is
\* recorded as handed to db_cursor.execute, whether or not sqlite accepts it
CreateToMany(endpoint, i, acc) ==
    LET schema        == acc.schemas[endpoint]
        c             == schema.columns[i]
        foreign_table == schema.to_many[c.name].refers_to_table
        foreign_endpt == schema.to_many[c.name].refers_to_endpoint
        t1            == sql_type_for(acc.schemas, endpoint, UriCol(endpoint))
        t2            == sql_type_for(acc.schemas, foreign_endpt, UriCol(foreign_endpt))
    IN  IF c.name \notin DOMAIN schema.to_many THEN [acc EXCEPT !.outcome = "exception"]
        ELSE IF t1 \in {"exit1", "exception"} THEN [acc EXCEPT !.outcome = t1]
        ELSE IF ~IsConfigured(foreign_endpt) THEN [acc EXCEPT !.outcome = "exception"]
        ELSE IF t2 \in {"exit1", "exception"} THEN [acc EXCEPT !.outcome = t2]
        ELSE [acc EXCEPT
                !.ddl = Append(@,
                    Statement("junction", schema.table \o "_" \o c.name,
                              << SqlColumn("id", "INTEGER", FALSE, TRUE),
                                 SqlColumn(ColumnCurrent(schema), t1, FALSE, FALSE),
                                 SqlColumn(c.name, t2, FALSE, FALSE) >>,
                              << ForeignKey(ColumnCurrent(schema), schema.table,
                                            UriCol(endpoint)),
                                 ForeignKey(c.name, foreign_table, UriCol(foreign_endpt)) >>)),
                !.outcome = IF Rejected(<< "id", ColumnCurrent(schema), c.name >>)
                            THEN "exception" ELSE "ok"]

\* "for column in schema['columns'].values()" of create_db_table, from column
\* i on; acc carries schemas, the columns and foreign lists, the statements
\* executed so far and how the call is going
RECURSIVE CreateColumns(_, _, _)
CreateColumns(endpoint, i, acc) ==
    IF acc.outcome # "ok" \/ i > Len(acc.schemas[endpoint].columns) THEN acc
    ELSE LET c == acc.schemas[endpoint].columns[i]
         IN  CreateColumns(endpoint, i + 1,
                 IF c.name = "resource_uri" THEN acc
                 ELSE IF c.type \in TextTypes
                      THEN [acc EXCEPT !.columns = Append(@, Suffixed(endpoint, c, "TEXT"))]
                 ELSE IF c.type \in IntegerTypes
                      THEN [acc EXCEPT !.columns = Append(@, Suffixed(endpoint, c, "INTEGER"))]
                 ELSE IF c.type = "to_one" THEN CreateToOne(endpoint, i, acc)
                 ELSE IF c.type = "to_many" THEN CreateToMany(endpoint, i, acc)
                 ELSE IF c.type = None THEN acc
                 ELSE [acc EXCEPT !.outcome = "exit1"])

\* create_db_table: the statements it executes, the schemas as it leaves
\* them, and whether it returned ("ok"), exited or raised
create_db_table(schms, endpoint) ==
    LET acc == CreateColumns(endpoint, 1,
                   [schemas |-> schms, columns |-> <<>>, foreign |-> <<>>,
                    ddl |-> <<>>, outcome |-> "ok"])
        schema == acc.schemas[endpoint]
    IN  IF acc.outcome # "ok" THEN acc
        ELSE [acc EXCEPT !.ddl = @ \o
                << Statement("base", schema.table, acc.columns, acc.foreign),
                   Statement("index", schema.table,
                             << SqlColumn(UriCol(endpoint), "", TRUE, FALSE) >>, <<>>) >>]

\* one pass of "for endpoint in endpoints: create_db_table(...)"
CreateTable ==
    /\ status = "running" /\ pc = "create"
    /\ k <= Len(endpoints)
    /\ LET res == create_db_table(schemas, endpoints[k])
       IN  /\ ddl' = ddl \o res.ddl
           /\ schemas' = res.schemas
           /\ IF res.outcome = "ok"
              THEN /\ k' = k + 1
                   /\ UNCHANGED status
              ELSE /\ status' = res.outcome
                   /\ UNCHANGED k
    /\ UNCHANGED << env, prev, coerced, archive, pc, requests, cache, endpoints, reported, cats, yielded,
                    gen, val, pending, committed >>

\* every table is created: the script goes on to the import
EndCreate ==
    /\ status = "running" /\ pc = "create"
    /\ k > Len(endpoints)
    /\ pc' = "populate"
    /\ k' = 1
    /\ UNCHANGED << env, prev, coerced, archive, status, requests, cache, schemas, endpoints, reported,
                    cats, yielded, gen, ddl, val, pending, committed >>

(***************************************************************************)
(* Datetime coercion of the importer (fromisoformat, astimezone(UTC),      *)
(* strftime("%Y-%m-%d %H:%M:%S")).                                         *)
(***************************************************************************)
\* the value of a decimal digit character
Digit(c) == CHOOSE n \in 0..9 : Numeral(n) = c

\* the number written in s[i..j]
RECURSIVE Number(_, _, _)
Number(s, i, j) ==
    IF j < i THEN 0 ELSE Number(s, i, j - 1) * 10 + Digit(SubSeq(s, j, j))

\* n written with at least two digits
Pad2(n) == Numeral(n \div 10) \o Numeral(n % 10)

\* n written with four digits
Pad4(n) == Pad2(n \div 100) \o Pad2(n % 100)

IsLeap(y) == (y % 4 = 0 /\ y % 100 # 0) \/ y % 400 = 0

DaysIn(y, m) ==
    IF m = 2 THEN (IF IsLeap(y) THEN 29 ELSE 28)
    ELSE IF m \in {4, 6, 9, 11} THEN 30 ELSE 31

\* the day before and the day after a date
PrevDay(d) ==
    IF d.d > 1 THEN [d EXCEPT !.d = d.d - 1]
    ELSE IF d.m > 1 THEN [y |-> d.y, m |-> d.m - 1, d |-> DaysIn(d.y, d.m - 1)]
    ELSE [y |-> d.y - 1, m |-> 12, d |-> 31]
NextDay(d) ==
    IF d.d < DaysIn(d.y, d.m) THEN [d EXCEPT !.d = d.d + 1]
    ELSE IF d.m < 12 THEN [y |-> d.y, m |-> d.m + 1, d |-> 1]
    ELSE [y |-> d.y + 1, m |-> 1, d |-> 1]

\* the UTC offset, in minutes, of a timestamp YYYY-MM-DD?HH:MM:SS[+HH:MM];
\* a timestamp without offset is taken as local time (offset local)
OffsetOf(s, local) ==
    IF Len(s) < 25 THEN local
    ELSE (IF SubSeq(s, 20, 20) = "-" THEN -1 ELSE 1)
         * (Number(s, 21, 22) * 60 + Number(s, 24, 25))

\* the coerced text of timestamp s on a machine whose local offset is local
DatetimeCoerce(s, local) ==
    LET date == [y |-> Number(s, 1, 4), m |-> Number(s, 6, 7), d |-> Number(s, 9, 10)]
        t    == Number(s, 12, 13) * 60 + Number(s, 15, 16) - OffsetOf(s, local)
        day  == IF t < 0 THEN PrevDay(date) ELSE IF t >= 1440 THEN NextDay(date) ELSE date
        u    == IF t < 0 THEN t + 1440 ELSE IF t >= 1440 THEN t - 1440 ELSE t
    IN  Pad4(day.y) \o "-" \o Pad2(day.m) \o "-" \o Pad2(day.d) \o " "
        \o Pad2(u \div 60) \o ":" \o Pad2(u % 60) \o ":" \o SubSeq(s, 18, 19)

\* the datetime branch of the importer on one value: None stays None
DatetimeValue(v, local) ==
    IF v.kind = "null" THEN JNull ELSE JStr(DatetimeCoerce(v.s, local))

(***************************************************************************)
(* import_db_table.                                                        *)
(***************************************************************************)
\* the column types counted as one placeholder of the INSERT statement
CountedTypes == {"string", "date", "datetime", "timedelta", "integer", "boolean", "to_one"}

\* the column types whose value is stored as received
PlainTypes == {"string", "integer", "boolean", "date", "timedelta"}

\* the first loop of import_db_table from column i on: vcount and whether
\* it returned ("ok") or exited
RECURSIVE CountColumns(_, _, _)
CountColumns(schema, i, acc) ==
    IF acc.outcome # "ok" \/ i > Len(schema.columns) THEN acc
    ELSE LET c == schema.columns[i]
         IN  CountColumns(schema, i + 1,
                 IF c.name # schema.sort_by /\ c.name = "resource_uri" THEN acc
                 ELSE IF c.type \in CountedTypes THEN [acc EXCEPT !.vcount = @ + 1]
                 ELSE IF c.type = "to_many" \/ c.type = None THEN acc
                 ELSE [acc EXCEPT !.outcome = "exit1"])

\* vcount and outcome of the first loop
ImportCount(schema) == CountColumns(schema, 1, [vcount |-> 0, outcome |-> "ok"])

\* an import that never asks for an ordering
ImportUriUnordered(schema, endpoint) == endpoint \o "?limit=500"

\* the URI import_db_table streams an endpoint from
ImportUri(schema, endpoint) ==
    IF Ordered(schema) THEN endpoint \o "?limit=500&order_by=" \o schema.sort_by
    ELSE endpoint \o "?limit=500"

\* url.split("/")[-1]
DerefLast(url) == Split(url, "/")[Len(Split(url, "/"))]

\* url.split("/")[-2], defined when the split has two parts or more
DerefKey(url) == Split(url, "/")[Len(Split(url, "/")) - 1]

\* whether url.split("/")[-2] raises IndexError
NoKey(url) == Len(Split(url, "/")) < 2

\* a row handed to executemany: the table, the named columns (none for a
\* positional insert) and the values
Row(table, columns, values) == [table |-> table, columns |-> columns, values |-> values]

\* junction rows keyed by the declared primary key of the record
JunctionRowsByPrimaryKey(schema, endpoint, c, item) ==
    [j \in 1..Len(item[c.name].l) |->
        Row(schema.table \o "_" \o c.name,
            << ColumnCurrent(schema), c.name >>,
            << item[schema.primary_key], JStr(DerefKey(item[c.name].l[j])) >>)]

\* the rows of the junction table of to_many column c for one item
JunctionRows(schema, endpoint, c, item) ==
    [j \in 1..Len(item[c.name].l) |->
        Row(schema.table \o "_" \o c.name,
            << ColumnCurrent(schema), c.name >>,
            << item[UriCol(endpoint)], JStr(DerefKey(item[c.name].l[j])) >>)]

\* the second loop of import_db_table on one item, from column i on: the
\* values of the base row, the junction rows inserted, and the outcome
RECURSIVE ImportColumns(_, _, _, _, _, _)
ImportColumns(schema, endpoint, item, tz, i, acc) ==
    IF acc.outcome # "ok" \/ i > Len(schema.columns) THEN acc
    ELSE LET c == schema.columns[i]
             v == item[c.name]
         IN  ImportColumns(schema, endpoint, item, tz, i + 1,
                 IF c.name = "resource_uri" THEN acc
                 ELSE IF c.type \in PlainTypes THEN [acc EXCEPT !.values = Append(@, v)]
                 ELSE IF c.type = "datetime"
                      THEN IF v.kind \notin {"null", "str"}
                           THEN [acc EXCEPT !.outcome = "exception"]
                           ELSE [acc EXCEPT !.values = Append(@, DatetimeValue(v, tz))]
                 ELSE IF c.type = "to_one"
                      THEN IF v.kind = "null" THEN [acc EXCEPT !.values = Append(@, JNull)]
                           ELSE IF v.kind # "str" \/ NoKey(v.s)
                                THEN [acc EXCEPT !.outcome = "exception"]
                           ELSE [acc EXCEPT !.values = Append(@, JStr(DerefKey(v.s)))]
                 ELSE IF c.type = "to_many"
                      THEN IF v.kind # "list" \/ \E j \in 1..Len(v.l) : NoKey(v.l[j])
                           THEN [acc EXCEPT !.outcome = "exception"]
                           ELSE [acc EXCEPT !.junction = @ \o JunctionRows(schema, endpoint, c, item)]
                 ELSE IF c.type = None THEN acc
                 ELSE [acc EXCEPT !.outcome = "exit1"])

\* what import_db_table does with one item
ImportRow(schema, endpoint, item, tz) ==
    ImportColumns(schema, endpoint, item, tz, 1,
                  [values |-> <<>>, junction |-> <<>>, outcome |-> "ok"])

\* the number of columns the base table of a schema was created with
BaseColumnCount(statements, table) ==
    Len((CHOOSE st \in { statements[i] : i \in 1..Len(statements) } :
            st.kind = "base" /\ st.table = table).columns)

\* top of "for endpoint in endpoints: import_db_table(...)" down to the
\* call of fetch_multi
StartImport ==
    /\ status = "running" /\ pc = "populate"
    /\ k <= Len(endpoints)
    /\ LET schema == schemas[endpoints[k]]
       IN  IF ImportCount(schema).outcome = "ok"
           THEN /\ gen' = NewGen(ImportUri(schema, endpoints[k]))
                /\ val' = <<>>
                /\ pc' = "import"
                /\ UNCHANGED status
           ELSE /\ status' = ImportCount(schema).outcome
                /\ UNCHANGED << gen, val, pc >>
    /\ UNCHANGED << env, prev, coerced, archive, requests, cache, schemas, endpoints, reported, cats, yielded,
                    k, ddl, pending, committed >>

\* an import pass that commits the junction rows of each item as it goes
ImportItemCommitting ==
    /\ status = "running" /\ pc = "import"
    /\ HasItem(gen)
    /\ LET schema == schemas[endpoints[k]]
           res    == ImportRow(schema, endpoints[k], Item(gen), env.tz)
       IN  /\ committed' = committed \o pending \o res.junction
           /\ pending' = <<>>
           /\ IF res.outcome = "ok"
              THEN /\ val' = Append(val, Row(schema.table, <<>>, res.values))
                   /\ gen' = [gen EXCEPT !.idx = gen.idx + 1]
                   /\ UNCHANGED status
              ELSE /\ status' = res.outcome
                   /\ UNCHANGED << val, gen >>
    /\ UNCHANGED << env, prev, coerced, archive, pc, requests, cache, schemas, endpoints, reported, cats,
                    yielded, k, ddl >>

\* one pass of "for item in dt.fetch_multi(uri)" of import_db_table
ImportItem ==
    /\ status = "running" /\ pc = "import"
    /\ HasItem(gen)
    /\ LET schema == schemas[endpoints[k]]
           res    == ImportRow(schema, endpoints[k], Item(gen), env.tz)
       IN  /\ pending' = pending \o res.junction
           /\ IF res.outcome = "ok"
              THEN /\ val' = Append(val, Row(schema.table, <<>>, res.values))
                   /\ gen' = [gen EXCEPT !.idx = gen.idx + 1]
                   /\ UNCHANGED status
              ELSE /\ status' = res.outcome
                   /\ UNCHANGED << val, gen >>
    /\ UNCHANGED << env, prev, coerced, archive, pc, requests, cache, schemas, endpoints, reported, cats,
                    yielded, k, ddl, committed >>

\* the stream is exhausted: executemany of the buffered rows, then commit
EndImport ==
    /\ status = "running" /\ pc = "import"
    /\ Exhausted(gen)
    /\ LET schema == schemas[endpoints[k]]
       IN  IF ImportCount(schema).vcount = BaseColumnCount(ddl, schema.table)
           THEN /\ committed' = committed \o pending \o val
                /\ pending' = <<>>
                /\ val' = <<>>
                /\ pc' = "populate"
                /\ k' = k + 1
                /\ UNCHANGED status
           ELSE /\ status' = "exception"
                /\ UNCHANGED << committed, pending, val, pc, k >>
    /\ UNCHANGED << env, prev, coerced, archive, requests, cache, schemas, endpoints, reported, cats, yielded,
                    gen, ddl >>

\* every endpoint is imported: VACUUM, and the script ends
Vacuum ==
    /\ status = "running" /\ pc = "populate"
    /\ k > Len(endpoints)
    /\ pc' = "done"
    /\ status' = "exit0"
    /\ UNCHANGED << env, prev, coerced, archive, requests, cache, schemas, endpoints, reported, cats, yielded,
                    k, gen, ddl, val, pending, committed >>

(***************************************************************************)
(* The run.                                                                *)
(***************************************************************************)
Next ==
    \/ FetchTopLevel
    \/ FetchCategory
    \/ DiscoverUnconfigured
    \/ DiscoverSkipped
    \/ DiscoverMirrored
    \/ EndCatalog
    \/ StartDiscovery
    \/ FetchPage
    \/ ScanItem
    \/ EndScan
    \/ EndDiscovery
    \/ CreateTable
    \/ EndCreate
    \/ StartImport
    \/ ImportItem
    \/ EndImport
    \/ Vacuum

Spec == Init /\ [][Next]_vars

(***************************************************************************)
(* Properties.                                                             *)
(***************************************************************************)
\* the statements executed so far, as a set
Statements == { ddl[i] : i \in 1..Len(ddl) }

\* some GET came back with a status other than 200
Failed == \E i \in 1..Len(requests) : requests[i].code # 200

\* C1: once the catalog has yielded an endpoint path that is not a key of
\* the mirror table, the run has exited with code 1 while still in catalog
\* discovery, and no statement has been executed.
C1_AbortsOnUnconfigured ==
    reported # <<>> => /\ status = "exit1"
                       /\ pc = "catalog"
                       /\ ddl = <<>>

\* C2: a GET that comes back with a status other than 200 is the last GET of
\* the run and leaves the run exited with code 1; from then on no request is
\* issued, no record is yielded, no statement is executed, no row is
\* inserted and nothing is committed.
C2_FailureIsFatal ==
    /\ [](Failed => /\ status = "exit1"
                    /\ requests[Len(requests)].code # 200
                    /\ \A i \in 1..(Len(requests) - 1) : requests[i].code = 200)
    /\ [][Failed => /\ requests' = requests
                    /\ gen' = gen
                    /\ ddl' = ddl
                    /\ val' = val
                    /\ pending' = pending
                    /\ committed' = committed]_vars

\* C2 witness: a page request fails during the import of the second
\* endpoint, after tables were created and rows were committed.
C2_Witness ==
    /\ Failed /\ status = "exit1"
    /\ pc = "import" /\ k = 2
    /\ ddl # <<>> /\ committed # <<>>

\* C3: every FOREIGN KEY clause of every executed statement references, in
\* the table it names, the uri_col the mirror table configures for the
\* endpoint of that table.
C3_ForeignKeysUseUriCol ==
    \A st \in Statements : \A j \in 1..Len(st.foreign) :
        \E e \in DOMAIN endpoints_to_mirror :
            /\ endpoints_to_mirror[e].mirror
            /\ st.foreign[j].table = "ietf_dt_" \o Join("_", Slice(Split(e, "/"), 3, 1))
            /\ st.foreign[j].ref = endpoints_to_mirror[e].uri_col

\* C3 witness: a base table with a to_one foreign key and a junction table
\* have been created, one of the keys pointing at the document table, whose
\* declared primary key (id) is not its uri_col (name).
C3_Witness ==
    /\ "/api/v1/doc/document/" \in DOMAIN schemas
    /\ schemas["/api/v1/doc/document/"].primary_key = "id"
    /\ \E st \in Statements : st.kind = "base" /\ st.foreign # <<>>
    /\ \E st \in Statements :
         /\ st.kind = "junction"
         /\ \E j \in 1..Len(st.foreign) :
              st.foreign[j] = [column |-> "document", table |-> "ietf_dt_doc_document",
                               ref |-> "name"]

\* create_db_table has been called for the n-th endpoint and has returned,
\* exited or raised
Attempted(n) ==
    \/ pc \in {"populate", "import", "done"}
    \/ pc = "create" /\ (n < k \/ (n = k /\ status # "running"))

\* the SQL type the scalar type mapping gives a column kind
ExpectedSqlType(kind) ==
    IF kind \in {"string", "date", "datetime", "timedelta"} THEN "TEXT"
    ELSE IF kind \in {"integer", "boolean"} THEN "INTEGER"
    ELSE "none"

\* the kind of the scalar column reached from a column by following to_one
\* relations to the uri_col of their mirrored targets, in at most fuel hops
RECURSIVE UltimateKind(_, _, _)
UltimateKind(e, name, fuel) ==
    LET schema == schemas[e]
        c      == schema.columns[CHOOSE i \in 1..Len(schema.columns) :
                                     schema.columns[i].name = name]
        target == schema.to_one[name].refers_to_endpoint
    IN  IF /\ c.type = "to_one" /\ fuel > 0
           /\ name \in DOMAIN schema.to_one
           /\ target \in DOMAIN schemas
        THEN UltimateKind(target, endpoints_to_mirror[target].uri_col, fuel - 1)
        ELSE c.type

\* the columns of the n-th endpoint that are to_one relations to a mirrored endpoint
MirroredToOne(n) ==
    LET schema == schemas[endpoints[n]]
    IN  { i \in 1..Len(schema.columns) :
            /\ schema.columns[i].type = "to_one"
            /\ schema.columns[i].name \in DOMAIN schema.to_one
            /\ schema.to_one[schema.columns[i].name].refers_to_endpoint \in DOMAIN schemas }

\* the columns of the n-th endpoint that are to_many relations to a mirrored endpoint
MirroredToMany(n) ==
    LET schema == schemas[endpoints[n]]
    IN  { i \in 1..Len(schema.columns) :
            /\ schema.columns[i].type = "to_many"
            /\ schema.columns[i].name \in DOMAIN schema.to_many
            /\ schema.to_many[schema.columns[i].name].refers_to_endpoint \in DOMAIN schemas }

\* the to_one columns of the n-th endpoint whose mirrored target has a uri_col
\* that is itself a to_one column
ChainedToOne(n) ==
    { i \in MirroredToOne(n) :
        LET schema == schemas[endpoints[n]]
            target == schema.to_one[schema.columns[i].name].refers_to_endpoint
        IN  \E j \in 1..Len(schemas[target].columns) :
                /\ schemas[target].columns[j].name = endpoints_to_mirror[target].uri_col
                /\ schemas[target].columns[j].type = "to_one" }

\* every column of the n-th endpoint is a scalar, unused, or a to_one relation
\* to a mirrored endpoint
OnlyMirroredToOne(n) ==
    \A i \in 1..Len(schemas[endpoints[n]].columns) :
        \/ i \in MirroredToOne(n)
        \/ schemas[endpoints[n]].columns[i].type \in
             {"string", "date", "datetime", "timedelta", "integer", "boolean", None}

\* C4: once create_db_table has been called for an endpoint whose only
\* relation columns are to_one columns with mirrored targets, its base table
\* exists and every to_one column whose target's uri_col is itself a to_one
\* column has the SQL type of the scalar uri_col reached by following the
\* chain of to_one relations.
C4_ToOneTypeFollowsChain ==
    \A n \in 1..Len(endpoints) :
        (endpoints[n] \in DOMAIN schemas /\ Attempted(n) /\ OnlyMirroredToOne(n)) =>
            \A i \in ChainedToOne(n) :
                LET schema == schemas[endpoints[n]]
                    c      == schema.columns[i]
                    target == schema.to_one[c.name].refers_to_endpoint
                IN  \E st \in Statements :
                        /\ st.kind = "base" /\ st.table = schema.table
                        /\ \E j \in 1..Len(st.columns) :
                             /\ st.columns[j].name = c.name
                             /\ st.columns[j].type =
                                  ExpectedSqlType(UltimateKind(target,
                                      endpoints_to_mirror[target].uri_col, Len(endpoints)))

\* every column of the n-th endpoint is a scalar, unused, or a to_many
\* relation to a mirrored endpoint
OnlyMirroredToMany(n) ==
    \A i \in 1..Len(schemas[endpoints[n]].columns) :
        \/ i \in MirroredToMany(n)
        \/ schemas[endpoints[n]].columns[i].type \in
             {"string", "date", "datetime", "timedelta", "integer", "boolean", None}

\* C5: once create_db_table has been called for endpoint E, whose only
\* relation columns are to_many columns with mirrored targets, every to_many
\* column R of E resolved to target T has exactly one junction
\* table <E.table>_<R>, whose two key columns have the SQL types of E's and
\* T's uri_col and whose two foreign keys reference E's table on E's uri_col
\* and T's table on T's uri_col; and every junction table is the table of
\* such a column.
C5_JunctionPerToMany ==
    /\ \A n \in 1..Len(endpoints) :
        (endpoints[n] \in DOMAIN schemas /\ Attempted(n) /\ OnlyMirroredToMany(n)) =>
            \A i \in MirroredToMany(n) :
                LET e      == endpoints[n]
                    schema == schemas[e]
                    c      == schema.columns[i]
                    target == schema.to_many[c.name].refers_to_endpoint
                    name   == schema.table \o "_" \o c.name
                IN  /\ Cardinality({ x \in 1..Len(ddl) : ddl[x].table = name }) = 1
                    /\ \E st \in Statements :
                         /\ st.kind = "junction" /\ st.table = name
                         /\ Len(st.columns) = 3 /\ Len(st.foreign) = 2
                         /\ st.columns[2].type =
                              ExpectedSqlType(UltimateKind(e, endpoints_to_mirror[e].uri_col,
                                                           Len(endpoints)))
                         /\ st.columns[3].type =
                              ExpectedSqlType(UltimateKind(target,
                                  endpoints_to_mirror[target].uri_col, Len(endpoints)))
                         /\ st.foreign[1].column = st.columns[2].name
                         /\ st.foreign[1].table = schema.table
                         /\ st.foreign[1].ref = endpoints_to_mirror[e].uri_col
                         /\ st.foreign[2].column = st.columns[3].name
                         /\ st.foreign[2].table = schemas[target].table
                         /\ st.foreign[2].ref = endpoints_to_mirror[target].uri_col
    /\ \A st \in Statements :
        st.kind = "junction" =>
            \E n \in 1..Len(endpoints) : \E i \in MirroredToMany(n) :
                st.table = schemas[endpoints[n]].table \o "_"
                           \o schemas[endpoints[n]].columns[i].name

\* the base rows built so far for endpoint e, in stream order: the buffered
\* rows while e is being imported, its committed rows otherwise
BaseRows(e) ==
    IF pc = "import" /\ endpoints[k] = e THEN val
    ELSE LET IsBase(r) == r.table = schemas[e].table /\ r.columns = <<>>
         IN  SelectSeq(committed, IsBase)

\* the position, in a base row, of the value of column i of a schema
ValueIndex(schema, i) ==
    Cardinality({ j \in 1..i :
        /\ schema.columns[j].name # "resource_uri"
        /\ schema.columns[j].type \in
             {"string", "integer", "boolean", "date", "timedelta", "datetime", "to_one"} })

\* the columns of endpoint e discovered to refer to an endpoint that is
\* configured but not mirrored
UnmirroredToOne(e) ==
    { i \in 1..Len(schemas[e].columns) :
        /\ schemas[e].columns[i].name \in DOMAIN schemas[e].to_one
        /\ schemas[e].to_one[schemas[e].columns[i].name].refers_to_endpoint
             \in DOMAIN endpoints_to_mirror
        /\ schemas[e].to_one[schemas[e].columns[i].name].refers_to_endpoint
             \notin DOMAIN schemas }

\* a to_one column with an unmirrored target is a TEXT column without foreign key
UnmirroredIsText(e, i) ==
    \A st \in Statements :
        (st.kind = "base" /\ st.table = schemas[e].table) =>
            /\ \E j \in 1..Len(st.columns) :
                 /\ st.columns[j].name = schemas[e].columns[i].name
                 /\ st.columns[j].type = "TEXT"
            /\ \A j \in 1..Len(st.foreign) :
                 st.foreign[j].column # schemas[e].columns[i].name

\* the <key> of a resource URL /api/v1/<app>/<model>/<key>/
KeySegment(url) == Split(url, "/")[6]

\* C6 as claimed: a to_one column whose discovered target is configured but
\* not mirrored is a TEXT column without foreign key, and the value stored
\* for it in each row is the key segment of the referenced URL.
C6_UnmirroredStoresKey ==
    \A e \in DOMAIN schemas : \A i \in UnmirroredToOne(e) :
        /\ UnmirroredIsText(e, i)
        /\ \A j \in 1..Len(BaseRows(e)) :
             LET v == env.records[e][j][schemas[e].columns[i].name]
             IN  v.kind = "str" =>
                   BaseRows(e)[j].values[ValueIndex(schemas[e], i)] = JStr(KeySegment(v.s))

\* C6 as amended: a to_one column whose discovered target is configured but
\* not mirrored is a TEXT column without foreign key, and the value stored
\* for it in each row is the value received, the full resource URL (or null).
C6_UnmirroredStoresUrl ==
    \A e \in DOMAIN schemas : \A i \in UnmirroredToOne(e) :
        /\ UnmirroredIsText(e, i)
        /\ \A j \in 1..Len(BaseRows(e)) :
             BaseRows(e)[j].values[ValueIndex(schemas[e], i)]
               = env.records[e][j][schemas[e].columns[i].name]

\* C6 witness: the document table was created, its state column refers to the
\* unmirrored feedback endpoint, and a row carrying a feedback URL was built.
C6_Witness ==
    /\ pc = "import" /\ endpoints[k] = "/api/v1/doc/document/"
    /\ UnmirroredToOne("/api/v1/doc/document/") # {}
    /\ \E st \in Statements : st.kind = "base" /\ st.table = "ietf_dt_doc_document"
    /\ \E j \in 1..Len(val) :
         env.records["/api/v1/doc/document/"][j]["state"] = JStr("/api/v1/nomcom/feedback/7/")

\* C7: in every base row, the value of a column that is to_one at import
\* time is the key segment of the referenced URL, null for a null
\* reference, and never the URL itself.
C7_ToOneStoresKey ==
    \A e \in DOMAIN schemas : \A i \in 1..Len(schemas[e].columns) :
        schemas[e].columns[i].type = "to_one" =>
            \A j \in 1..Len(BaseRows(e)) :
                LET v      == env.records[e][j][schemas[e].columns[i].name]
                    stored == BaseRows(e)[j].values[ValueIndex(schemas[e], i)]
                IN  /\ v.kind = "null" => stored = JNull
                    /\ v.kind = "str" => stored = JStr(KeySegment(v.s)) /\ stored # v

\* C7 witness: a row was built whose to_one column holds the key 5 taken from
\* /api/v1/doc/state/5/, and a row whose to_one column is null.
C7_Witness ==
    /\ pc = "import" /\ endpoints[k] = "/api/v1/doc/document/"
    /\ schemas["/api/v1/doc/document/"].columns[3].type = "to_one"
    /\ \E j \in 1..Len(val) :
         /\ env.records["/api/v1/doc/document/"][j]["state"] = JStr("/api/v1/doc/state/5/")
         /\ val[j].values[3] = JStr("5")
    /\ \E j \in 1..Len(val) :
         /\ env.records["/api/v1/doc/document/"][j]["state"] = JNull
         /\ val[j].values[3] = JNull

\* the (own key, referenced key) pairs of the first n records of endpoint e
\* for to_many column name, in record and list order
RECURSIVE ExpectedPairs(_, _, _)
ExpectedPairs(e, name, n) ==
    IF n = 0 THEN <<>>
    ELSE ExpectedPairs(e, name, n - 1) \o
         [x \in 1..Len(env.records[e][n][name].l) |->
             << env.records[e][n][endpoints_to_mirror[e].uri_col],
                JStr(KeySegment(env.records[e][n][name].l[x])) >>]

\* the value pairs inserted, and not yet committed, in a junction table
PendingPairs(table) ==
    LET InTable(r) == r.table = table
        rows == SelectSeq(pending, InTable)
    IN  [x \in 1..Len(rows) |-> rows[x].values]

\* C8: while an endpoint is imported, the rows inserted in the junction
\* table of each to_many column are, record by record and element by
\* element, the pairs (own uri_col value, key segment of the element), none
\* for an empty list; and a base row has no value for a to_many column.
C8_JunctionRowPerElement ==
    pc = "import" =>
        LET e == endpoints[k]
            schema == schemas[e]
        IN  /\ \A i \in 1..Len(schema.columns) :
                 schema.columns[i].type = "to_many" =>
                     PendingPairs(schema.table \o "_" \o schema.columns[i].name)
                       = ExpectedPairs(e, schema.columns[i].name, Len(val))
            /\ \A j \in 1..Len(val) :
                 Len(val[j].values) =
                   Cardinality({ i \in 1..Len(schema.columns) :
                       /\ schema.columns[i].name # "resource_uri"
                       /\ schema.columns[i].type \notin {"to_many", None} })

\* C8 witness: two records were imported, one with a two-element list and one
\* with an empty list, and two junction rows were inserted.
C8_Witness ==
    /\ pc = "import" /\ endpoints[k] = "/api/v1/doc/document/"
    /\ schemas["/api/v1/doc/document/"].columns[4].type = "to_many"
    /\ Len(val) = 2 /\ Len(pending) = 2
    /\ \E j \in 1..2 : env.records["/api/v1/doc/document/"][j]["states"] = JList(<<>>)
    /\ pending[1].values[1].s \in {"draft-1", "draft-2"}

\* the committed rows of the base table and the junction tables of endpoint e
CommittedRows(e) ==
    LET Own(r) == \/ r.table = schemas[e].table
                  \/ \E i \in 1..Len(schemas[e].columns) :
                        r.table = schemas[e].table \o "_" \o schemas[e].columns[i].name
    IN  SelectSeq(committed, Own)

\* the number of junction rows the records of endpoint e give rise to, over
\* the to_many columns 1..i
RECURSIVE JunctionCount(_, _)
JunctionCount(e, i) ==
    IF i = 0 THEN 0
    ELSE JunctionCount(e, i - 1) +
         (IF schemas[e].columns[i].type = "to_many"
          THEN Len(ExpectedPairs(e, schemas[e].columns[i].name, Len(env.records[e])))
          ELSE 0)

\* import_db_table has returned for the n-th endpoint
Imported(n) == pc = "done" \/ (pc \in {"populate", "import"} /\ n < k)

\* C9: the committed database holds, for every mirrored endpoint, all of its
\* base and junction rows once its import has returned and none before;
\* the committed rows change only by the commit that follows the exhaustion
\* of an endpoint's stream, which adds every inserted and buffered row.
C9_CommitPerEndpoint ==
    /\ [](\A n \in 1..Len(endpoints) :
            endpoints[n] \in DOMAIN schemas =>
                IF Imported(n)
                THEN Len(CommittedRows(endpoints[n]))
                       = Len(env.records[endpoints[n]])
                         + JunctionCount(endpoints[n], Len(schemas[endpoints[n]].columns))
                ELSE CommittedRows(endpoints[n]) = <<>>)
    /\ [][committed' # committed =>
            /\ pc = "import" /\ Exhausted(gen)
            /\ committed' = committed \o pending \o val
            /\ pending' = <<>>]_vars

\* C9 witness: a page request failed in the middle of the second endpoint's
\* stream, after a base row was buffered and junction rows were inserted for
\* it, while the rows of the first endpoint are committed.
C9_Witness ==
    /\ status = "exit1" /\ pc = "import" /\ k = 2
    /\ val # <<>> /\ pending # <<>>
    /\ committed # <<>>
    /\ CommittedRows(endpoints[2]) = <<>>

\* the step puts a page in the generator's hand
LoadsPage == gen'.loaded /\ gen'.idx = 0 /\ gen' # gen

\* C10: a cache entry, once stored, is never changed or removed, and it is
\* the page that was fetched; no GET is issued for a URI that is in the
\* cache; a page taken for a cached URI is the stored objects in the stored
\* order with the stored next link, and a page taken for any other URI comes
\* from a GET of that URI.
C10_CacheReplays ==
    [][/\ \A u \in DOMAIN cache : u \in DOMAIN cache' /\ cache'[u] = cache[u]
       /\ \A u \in (DOMAIN cache') \ (DOMAIN cache) :
            /\ gen.loaded /\ gen.miss /\ gen.uri = u /\ gen.idx = Len(gen.objs)
            /\ cache'[u] = [next |-> gen.next, objs |-> gen.objs]
       /\ requests' # requests => requests'[Len(requests')].uri \notin DOMAIN cache'
       /\ LoadsPage =>
            IF gen'.uri \in DOMAIN cache'
            THEN /\ requests' = requests
                 /\ gen'.objs = cache'[gen'.uri].objs
                 /\ gen'.next = cache'[gen'.uri].next
            ELSE requests' = Append(requests, [uri |-> gen'.uri, code |-> 200])]_vars

\* C10 witness: during the import a page is replayed from the cache, where
\* relation discovery stored it, and the page after it is in the cache too.
C10_Witness ==
    /\ pc = "import"
    /\ gen.loaded /\ ~gen.miss /\ gen.objs # <<>>
    /\ gen.uri \in DOMAIN cache /\ gen.next \in DOMAIN cache
    /\ Cardinality({ i \in 1..Len(requests) : requests[i].uri = gen.uri }) = 1

\* a record value that is neither null nor empty
Valued(v) == (v.kind = "str" /\ v.s # "") \/ (v.kind = "list" /\ v.l # <<>>)

\* the fields of endpoint e that its schema document declares as relations
RelationFields(e) ==
    { i \in 1..Len(env.schema[e].fields) :
        /\ env.schema[e].fields[i].type = "related"
        /\ env.schema[e].fields[i].related_type \in {"to_one", "to_many"} }

\* every relation field of endpoint e has a value in one of its first n records
AllValuedWithin(e, n) ==
    \A i \in RelationFields(e) :
        \E j \in 1..n : Valued(env.records[e][j][env.schema[e].fields[i].name])

\* the number of records relation discovery scans of endpoint e: up to the
\* first record at which every relation field has had a value, else all
ScannedPrefix(e) ==
    IF \E n \in 1..Len(env.records[e]) : AllValuedWithin(e, n)
    THEN CHOOSE n \in 1..Len(env.records[e]) :
             AllValuedWithin(e, n) /\ \A m \in 1..(n - 1) : ~AllValuedWithin(e, m)
    ELSE Len(env.records[e])

\* relation discovery is over for the n-th endpoint
Discovered(n) ==
    \/ pc \in {"create", "populate", "import", "done"}
    \/ pc \in {"discover", "scan"} /\ n < k

\* every row inserted so far, committed or not
InsertedRows == committed \o pending \o val

\* C11: once relation discovery is over for an endpoint, every relation
\* field without a non-null, non-empty value in the records scanned (none
\* when the endpoint has no record) is unused; and for every unused column
\* no statement declares a column, a foreign key or a junction table for it,
\* no junction row is inserted for it and a base row has no value for it.
C11_UnresolvedIsUnused ==
    \A n \in 1..Len(endpoints) :
        (endpoints[n] \in DOMAIN schemas /\ Discovered(n)) =>
            LET e      == endpoints[n]
                schema == schemas[e]
            IN  /\ \A i \in RelationFields(e) :
                     (\A j \in 1..ScannedPrefix(e) :
                         ~Valued(env.records[e][j][env.schema[e].fields[i].name]))
                       => schema.columns[i].type = None
                /\ \A i \in 1..Len(schema.columns) :
                     schema.columns[i].type = None =>
                       /\ \A st \in Statements :
                            /\ st.table # schema.table \o "_" \o schema.columns[i].name
                            /\ st.table = schema.table =>
                                 /\ \A x \in 1..Len(st.columns) :
                                      st.columns[x].name # schema.columns[i].name
                                 /\ \A x \in 1..Len(st.foreign) :
                                      st.foreign[x].column # schema.columns[i].name
                       /\ \A x \in 1..Len(InsertedRows) :
                            /\ InsertedRows[x].table
                                 # schema.table \o "_" \o schema.columns[i].name
                            /\ (InsertedRows[x].table = schema.table
                                 /\ InsertedRows[x].columns = <<>>) =>
                                 Len(InsertedRows[x].values) =
                                   Cardinality({ y \in 1..Len(schema.columns) :
                                       /\ schema.columns[y].name # "resource_uri"
                                       /\ schema.columns[y].type \notin {None, "to_many"} })

\* C11 witness: both relation columns of document are unused, its table was
\* created and two of its records were imported.
C11_Witness ==
    /\ pc = "import" /\ endpoints[k] = "/api/v1/doc/document/"
    /\ schemas["/api/v1/doc/document/"].columns[3].type = None
    /\ schemas["/api/v1/doc/document/"].columns[4].type = None
    /\ \E st \in Statements : st.kind = "base" /\ st.table = "ietf_dt_doc_document"
    /\ Len(val) = 2

\* the type tag a schema field ends up with in schema_for_endpoint
Tag(f) == IF f.type = "related" THEN f.related_type ELSE f.type

\* the type tags the script has a case for
KnownTags ==
    {"string", "integer", "boolean", "date", "datetime", "timedelta", "to_one", "to_many"}

\* some column of some mirrored endpoint has a type tag outside the known set
HasUnknownTag ==
    \E e \in DOMAIN env.schema : \E i \in 1..Len(env.schema[e].fields) :
        Tag(env.schema[e].fields[i]) \notin KnownTags

\* the process has ended with exit code 1 (sys.exit(1) or an uncaught exception)
ExitCode1 == status \in {"exit1", "exception"}

StartsWith(s, p) == Len(s) >= Len(p) /\ SubSeq(s, 1, Len(p)) = p

\* s ends with p
EndsWith(s, p) == Len(s) >= Len(p) /\ SubSeq(s, Len(s) - Len(p) + 1, Len(s)) = p

\* the kinds of request: catalog (top level or category), schema document, records
IsCatalogUri(u) == u = "api/v1/" \/ \E i \in 1..Len(TopLevel) : u = TopLevel[i]
IsSchemaUri(u) == EndsWith(u, "schema/")
IsRecordUri(u) == Contains("?limit=500", u)

\* no request of kind A comes after a request of kind B
Precede(A(_), B(_)) ==
    \A i \in 1..Len(requests) :
        A(requests[i].uri) => \A j \in 1..(i - 1) : ~B(requests[j].uri)

\* schema documents precede records, every endpoint has been streamed once
\* before the first statement, every base table exists before the first row
LaterPhasesInOrder ==
    /\ Precede(IsSchemaUri, IsRecordUri)
    /\ Precede(IsCatalogUri, IsRecordUri)
    /\ ddl # <<>> =>
         /\ pc \in {"create", "populate", "import", "done"}
         /\ \A n \in 1..Len(endpoints) : \E i \in 1..Len(requests) :
                StartsWith(requests[i].uri, endpoints[n] \o "?limit=500")
    /\ InsertedRows # <<>> =>
         /\ pc \in {"populate", "import", "done"}
         /\ \A n \in 1..Len(endpoints) : \E st \in Statements :
                st.kind = "base" /\ st.table = schemas[endpoints[n]].table

\* C13 as claimed: every catalog request precedes the first schema request,
\* every schema request the first record request, relation discovery of
\* every endpoint the first statement, and every table the first row.
C13_PhasesStrictlySequential ==
    /\ Precede(IsCatalogUri, IsSchemaUri)
    /\ LaterPhasesInOrder

\* C13 as amended: the schema document of an endpoint is requested after the
\* listing of its own category (the listings of later categories follow);
\* all catalog and schema requests precede the first record request,
\* relation discovery of every endpoint the first statement, and every
\* table the first row.
C13_PhasesAfterCatalog ==
    /\ \A j \in 1..Len(requests) :
         IsSchemaUri(requests[j].uri) =>
            \E i \in 1..(j - 1) :
                /\ requests[i].uri \in DOMAIN env.catalog
                /\ StartsWith(requests[j].uri, requests[i].uri)
    /\ LaterPhasesInOrder

\* C13 witness: a category listing was requested after a schema document,
\* and the run went on to create tables and insert rows.
C13_Witness ==
    /\ \E i, j \in 1..Len(requests) :
         i < j /\ IsSchemaUri(requests[i].uri) /\ IsCatalogUri(requests[j].uri)
    /\ ddl # <<>> /\ InsertedRows # <<>>

\* the record URIs the run has used for endpoint e: those it requested and
\* the one the generator in hand was started on or has reached
RecordUris(e) ==
    { requests[i].uri : i \in { x \in 1..Len(requests) :
                                 StartsWith(requests[x].uri, e \o "?") } }
    \cup (IF pc \in {"scan", "import"} /\ gen.uri # None /\ endpoints[k] = e
          THEN {gen.uri} ELSE {})

\* the sort_by introspection leaves for endpoint e
SortByOf(e) ==
    IF Contains("historical", e) \/ ~env.schema[e].has_ordering THEN None
    ELSE env.schema[e].ordering[1]

\* sort_by names one of the fields of the schema document of e
SortByIsField(e) ==
    \E i \in 1..Len(env.schema[e].fields) : env.schema[e].fields[i].name = SortByOf(e)

\* every record URI used for e carries order_by=<sort_by>
CarriesOrderBy(e) ==
    \A u \in RecordUris(e) : StartsWith(u, e \o "?limit=500&order_by=" \o SortByOf(e))

\* no record URI used for e carries order_by
CarriesNoOrderBy(e) ==
    \A u \in RecordUris(e) : StartsWith(u, e \o "?limit=500") /\ ~Contains("order_by", u)

\* C14 as claimed: an endpoint whose sort_by is not null is streamed, in
\* relation discovery and in the import, with order_by=<sort_by>; an
\* endpoint whose path contains "historical" has a null sort_by and is
\* streamed without order_by.
C14_SortByMeansOrderBy ==
    \A e \in DOMAIN schemas :
        /\ schemas[e].sort_by = SortByOf(e)
        /\ schemas[e].sort_by # None => CarriesOrderBy(e)
        /\ Contains("historical", e) => schemas[e].sort_by = None /\ CarriesNoOrderBy(e)

\* C14 as amended: an endpoint is streamed with order_by=<sort_by> when its
\* sort_by names one of its columns, and without order_by when its sort_by
\* is null or names no column; an endpoint whose path contains "historical"
\* has a null sort_by.
C14_OrderByWhenSortByIsColumn ==
    \A e \in DOMAIN schemas :
        /\ schemas[e].sort_by = SortByOf(e)
        /\ Contains("historical", e) => schemas[e].sort_by = None
        /\ IF schemas[e].sort_by # None /\ SortByIsField(e)
           THEN CarriesOrderBy(e)
           ELSE CarriesNoOrderBy(e)

\* C14 witness: the import has reached the historical endpoint, whose schema
\* document declares an ordering; document was requested with order_by=name,
\* and state, whose sort_by names no column, without order_by.
C14_Witness ==
    /\ pc = "import" /\ endpoints[k] = "/api/v1/person/historicalperson/"
    /\ gen.loaded
    /\ env.schema[endpoints[k]].has_ordering
    /\ schemas["/api/v1/doc/state/"].sort_by = "slug"
    /\ \E i \in 1..Len(requests) :
         requests[i].uri = "/api/v1/doc/document/?limit=500&order_by=name"
    /\ \E i \in 1..Len(requests) : requests[i].uri = "/api/v1/doc/state/?limit=500"
    /\ Cardinality({ i \in 1..Len(requests) :
           requests[i].uri = "/api/v1/person/historicalperson/?limit=500" }) = 2

(***************************************************************************)
(* A second run of the script against the same server.                     *)
(***************************************************************************)
\* compilation is over: every table is created, or create_db_table has
\* exited or raised
CompileDone ==
    \/ pc = "populate" /\ k = 1 /\ status = "running"
    \/ pc = "create" /\ status # "running"

\* the worlds that differ from w at most in the records of an endpoint that
\* come after those relation discovery scans
SameSample(w) ==
    { x \in Environments :
        /\ x.tz = w.tz /\ x.catalog = w.catalog /\ x.schema = w.schema
        /\ \A e \in DOMAIN w.records :
             LET n == ScannedPrefix(e)
             IN  /\ Len(x.records[e]) >= n
                 /\ SubSeq(x.records[e], 1, n) = SubSeq(w.records[e], 1, n)
                 /\ (n = 0 \/ ~AllValuedWithin(e, n)) => x.records[e] = w.records[e] }

\* the script is started again, with a fresh process and a fresh database,
\* once the first run has compiled its schema; what the first run compiled
\* is kept for comparison
Rerun ==
    /\ prev = NoRun /\ CompileDone
    /\ prev' = [run |-> 1, schemas |-> schemas, ddl |-> ddl, status |-> status,
                records |-> env.records]
    /\ env' \in SameSample(env)
    /\ pc' = "top"
    /\ status' = "running"
    /\ requests' = <<>>
    /\ cache' = EmptyMap
    /\ schemas' = EmptyMap
    /\ endpoints' = <<>>
    /\ reported' = <<>>
    /\ cats' = <<>>
    /\ yielded' = <<>>
    /\ k' = 0
    /\ gen' = NewGen(None)
    /\ ddl' = <<>>
    /\ val' = <<>>
    /\ pending' = <<>>
    /\ committed' = <<>>
    /\ UNCHANGED << coerced, archive >>

\* two runs, the second one followed until it has compiled its schema
NextTwice ==
    \/ Next /\ ~(prev # NoRun /\ CompileDone)
    \/ Rerun

SpecTwice == Init /\ [][NextTwice]_vars

\* C15: a second run against the same schema documents and the same sampled
\* records (the records after the sampled ones may differ) compiles the same
\* endpoint schemas, in the same order, and the same sequence of statements,
\* and ends the same way.
C15_CompilationIsRepeatable ==
    (prev # NoRun /\ CompileDone) =>
        /\ schemas = prev.schemas
        /\ ddl = prev.ddl
        /\ status = prev.status

\* C15 witness: the second run has created the same tables, with a foreign
\* key and a junction table, although the server's records after the sampled
\* ones have changed.
C15_Witness ==
    /\ prev # NoRun /\ CompileDone /\ status = "running"
    /\ env.records # prev.records
    /\ \E st \in Statements : st.kind = "junction"
    /\ \E st \in Statements : st.kind = "base" /\ st.foreign # <<>>

(***************************************************************************)
(* The importer's datetime coercion on its own.                            *)
(***************************************************************************)
\* the timestamps a datetime field may carry: with and without UTC offset
Timestamps ==
    { d \o "T" \o t \o z :
        d \in {"2019-12-31", "2020-01-01", "2020-02-29", "2020-03-01",
               "2020-12-31", "2021-02-28"},
        t \in {"00:00:00", "12:15:30", "23:30:00"},
        z \in {"", "+00:00", "+02:00", "-05:00", "+05:30"} }

\* the local UTC offsets, in minutes, of the machines the coercion may run on
MachineOffsets == {-300, 0, 120}

\* the worlds of the coercion: a machine and the time field of one record
CoerceEnvironments ==
    LET w == CHOOSE x \in Environments : x.records["/api/v1/doc/document/"] = <<>>
    IN  { [w EXCEPT !.tz = z,
                    !.records["/api/v1/person/historicalperson/"][1]["time"] = v] :
          z \in MachineOffsets, v \in {JNull} \cup { JStr(t) : t \in Timestamps } }

InitCoerce ==
    /\ env \in CoerceEnvironments
    /\ pc = "coerce"
    /\ status = "running"
    /\ requests = <<>>
    /\ cache = EmptyMap
    /\ schemas = EmptyMap
    /\ endpoints = <<>>
    /\ reported = <<>>
    /\ cats = <<>>
    /\ yielded = <<>>
    /\ k = 0
    /\ gen = NewGen(None)
    /\ ddl = <<>>
    /\ val = <<>>
    /\ pending = <<>>
    /\ committed = <<>>
    /\ prev = NoRun
    /\ coerced = <<>>
    /\ NoArchive

\* the value received for the time field
Received == env.records["/api/v1/person/historicalperson/"][1]["time"]

\* the importer coerces the value received
Coerce ==
    /\ pc = "coerce" /\ coerced = <<>>
    /\ coerced' = << DatetimeValue(Received, env.tz) >>
    /\ UNCHANGED << env, pc, status, requests, cache, schemas, endpoints, reported,
                    cats, yielded, k, gen, ddl, val, pending, committed, prev, archive >>

\* the coercion is applied to its own output
Recoerce ==
    /\ pc = "coerce" /\ Len(coerced) = 1
    /\ coerced' = Append(coerced, DatetimeValue(coerced[1], env.tz))
    /\ UNCHANGED << env, pc, status, requests, cache, schemas, endpoints, reported,
                    cats, yielded, k, gen, ddl, val, pending, committed, prev, archive >>

NextCoerce ==
    \/ Coerce
    \/ Recoerce

SpecCoerce == InitCoerce /\ [][NextCoerce]_vars

\* the number of days from 2000-01-01 to the date y-m-d
DaysSince2000(y, m, d) ==
    (y - 2000) * 365
    + Cardinality({ x \in 2000..(y - 1) : x % 4 = 0 /\ (x % 100 # 0 \/ x % 400 = 0) })
    + <<0, 31, 59, 90, 120, 151, 181, 212, 243, 273, 304, 334>>[m]
    + (IF m > 2 /\ y % 4 = 0 /\ (y % 100 # 0 \/ y % 400 = 0) THEN 1 ELSE 0)
    + d - 1

\* the instant, in minutes since 2000-01-01T00:00 UTC, of the wall-clock
\* time written at the head of s, read at the given UTC offset
Instant(s, offset) ==
    DaysSince2000(Number(s, 1, 4), Number(s, 6, 7), Number(s, 9, 10)) * 1440
    + Number(s, 12, 13) * 60 + Number(s, 15, 16) - offset

\* the UTC offset, in minutes, written at the end of a timestamp
WrittenOffset(s) ==
    CASE EndsWith(s, "+00:00") -> 0
      [] EndsWith(s, "+02:00") -> 120
      [] EndsWith(s, "-05:00") -> -300
      [] EndsWith(s, "+05:30") -> 330

\* a timestamp with offset comes out as the same instant in UTC, written
\* YYYY-MM-DD HH:MM:SS; null comes out as null
CoercesToUtc ==
    coerced # <<>> =>
        /\ Received = JNull => coerced[1] = JNull
        /\ (Received.kind = "str" /\ Len(Received.s) = 25) =>
             /\ coerced[1].kind = "str" /\ Len(coerced[1].s) = 19
             /\ SubSeq(coerced[1].s, 5, 5) = "-" /\ SubSeq(coerced[1].s, 8, 8) = "-"
             /\ SubSeq(coerced[1].s, 11, 11) = " "
             /\ SubSeq(coerced[1].s, 14, 14) = ":" /\ SubSeq(coerced[1].s, 17, 19)
                  = SubSeq(Received.s, 17, 19)
             /\ Instant(coerced[1].s, 0) = Instant(Received.s, WrittenOffset(Received.s))
        /\ Received = JStr("2020-01-01T00:00:00+02:00")
             => coerced[1] = JStr("2019-12-31 22:00:00")

\* C16: the coercion maps a timestamp with a UTC offset to the same instant
\* in UTC written YYYY-MM-DD HH:MM:SS (2020-01-01T00:00:00+02:00 gives
\* 2019-12-31 22:00:00), maps null to null, and applied to its own output
\* returns that output.
C16_CoercionIsUtcAndIdempotent ==
    /\ CoercesToUtc
    /\ Len(coerced) = 2 => coerced[2] = coerced[1]

\* the offset written in a page URI (0 for the first page)
OffsetOfPage(uri) ==
    IF Contains("&offset=", uri) THEN Digit(SubSeq(uri, Len(uri), Len(uri))) ELSE 0

\* the number of records the loop in hand has taken from its generator and
\* gone past
Consumed == IF gen.loaded THEN OffsetOfPage(gen.uri) * PageSize + gen.idx ELSE 0

\* found_all is true at the n-th record of endpoint e
FoundAllAt(e, n) == n >= 1 /\ AllValuedWithin(e, n)

\* the number of pages of endpoint e requested so far
PagesRequested(e) ==
    Cardinality({ i \in 1..Len(requests) : StartsWith(requests[i].uri, e \o "?") })

\* C17: relation discovery never goes past a record at which every relation
\* column of the endpoint is resolved (the first record, for an endpoint
\* without relation columns); it ends at such a record or, when there is
\* none, when the stream is exhausted.
C17_ScanStopsWhenResolved ==
    /\ []((pc = "scan" /\ gen.loaded) => ~FoundAllAt(endpoints[k], Consumed))
    /\ [][(pc = "scan" /\ pc' = "discover") =>
            \/ HasItem(gen) /\ FoundAllAt(endpoints[k], Consumed + 1)
            \/ /\ Exhausted(gen)
               /\ ~FoundAllAt(endpoints[k], Len(env.records[endpoints[k]]))]_vars

\* C17 witness: relation discovery is over; document has two records, the
\* first of which resolves both relation columns, and historicalperson has
\* two records and no relation column: one page of each was requested.
C17_Witness ==
    /\ pc = "create" /\ status = "running"
    /\ Len(env.records["/api/v1/doc/document/"]) = 2
    /\ AllValuedWithin("/api/v1/doc/document/", 1)
    /\ PagesRequested("/api/v1/doc/document/") = 1
    /\ RelationFields("/api/v1/person/historicalperson/") = {}
    /\ PagesRequested("/api/v1/person/historicalperson/") = 1

\* the <app> and <model> of a resource URL /api/v1/<app>/<model>/<key>/
AppOf(url) == Split(url, "/")[4]
ModelOf(url) == Split(url, "/")[5]

\* what relation discovery is to record for a resource URL
TargetOf(url) ==
    [refers_to_endpoint |-> "/api/v1/" \o AppOf(url) \o "/" \o ModelOf(url) \o "/",
     refers_to_table    |-> "ietf_dt_" \o AppOf(url) \o "_" \o ModelOf(url)]

\* the first record of endpoint e, in stream order, with a value for a field
FirstValued(e, name) ==
    CHOOSE j \in 1..Len(env.records[e]) :
        /\ Valued(env.records[e][j][name])
        /\ \A m \in 1..(j - 1) : ~Valued(env.records[e][m][name])

\* C18: the target recorded for a to_one column is the one decoded from the
\* first record, in stream order, whose value for the column is neither null
\* nor empty, and for a to_many column from the first element of the first
\* non-empty list; a recorded target never changes.
C18_FirstValueDecidesTarget ==
    /\ [](\A e \in DOMAIN schemas :
            /\ \A name \in DOMAIN schemas[e].to_one :
                 /\ \E j \in 1..Len(env.records[e]) : Valued(env.records[e][j][name])
                 /\ schemas[e].to_one[name]
                      = TargetOf(env.records[e][FirstValued(e, name)][name].s)
            /\ \A name \in DOMAIN schemas[e].to_many :
                 /\ \E j \in 1..Len(env.records[e]) : Valued(env.records[e][j][name])
                 /\ schemas[e].to_many[name]
                      = TargetOf(env.records[e][FirstValued(e, name)][name].l[1]))
    /\ [][\A e \in DOMAIN schemas :
            /\ \A name \in DOMAIN schemas[e].to_one :
                 /\ name \in DOMAIN schemas'[e].to_one
                 /\ schemas'[e].to_one[name] = schemas[e].to_one[name]
            /\ \A name \in DOMAIN schemas[e].to_many :
                 /\ name \in DOMAIN schemas'[e].to_many
                 /\ schemas'[e].to_many[name] = schemas[e].to_many[name]]_vars

\* C18 witness: the first document record refers to feedback and has an
\* empty list, the second refers to state and has a list: the scan went
\* through both, and the to_one target is the one of the first record.
C18_Witness ==
    /\ pc = "create"
    /\ Len(env.records["/api/v1/doc/document/"]) = 2
    /\ env.records["/api/v1/doc/document/"][1]["state"] = JStr("/api/v1/nomcom/feedback/7/")
    /\ env.records["/api/v1/doc/document/"][2]["state"] = JStr("/api/v1/doc/state/5/")
    /\ env.records["/api/v1/doc/document/"][1]["states"] = JList(<<>>)
    /\ "states" \in DOMAIN schemas["/api/v1/doc/document/"].to_many
    /\ schemas["/api/v1/doc/document/"].to_one["state"].refers_to_endpoint
         = "/api/v1/nomcom/feedback/"

\* the relation columns of the n-th endpoint whose discovered target is
\* configured but not mirrored
UnmirroredRelations(n) ==
    LET schema == schemas[endpoints[n]]
        Unmirrored(rel) == /\ rel.refers_to_endpoint \in DOMAIN endpoints_to_mirror
                           /\ ~endpoints_to_mirror[rel.refers_to_endpoint].mirror
    IN  { i \in 1..Len(schema.columns) :
            \/ /\ schema.columns[i].name \in DOMAIN schema.to_one
               /\ Unmirrored(schema.to_one[schema.columns[i].name])
            \/ /\ schema.columns[i].name \in DOMAIN schema.to_many
               /\ Unmirrored(schema.to_many[schema.columns[i].name]) }

\* every column of the n-th endpoint is a scalar, unused, or a relation to an
\* endpoint that is not mirrored
OnlyUnmirroredRelations(n) ==
    \A i \in 1..Len(schemas[endpoints[n]].columns) :
        \/ i \in UnmirroredRelations(n)
        \/ schemas[endpoints[n]].columns[i].type \in
             {"string", "date", "datetime", "timedelta", "integer", "boolean", None}

\* C19: once create_db_table has been called for an endpoint whose relation
\* columns all have targets that are not mirrored, the call has returned;
\* each such column, to_one or to_many, has kind string and is a TEXT column
\* of the base table, without foreign key and without junction table.
C19_UnmirroredRelationIsText ==
    \A n \in 1..Len(endpoints) :
        (endpoints[n] \in DOMAIN schemas /\ Attempted(n) /\ OnlyUnmirroredRelations(n)) =>
            LET schema == schemas[endpoints[n]]
            IN  /\ ~(pc = "create" /\ k = n /\ status # "running")
                /\ \A i \in UnmirroredRelations(n) :
                     /\ schema.columns[i].type = "string"
                     /\ \E st \in Statements :
                          /\ st.kind = "base" /\ st.table = schema.table
                          /\ \E x \in 1..Len(st.columns) :
                               /\ st.columns[x].name = schema.columns[i].name
                               /\ st.columns[x].type = "TEXT"
                          /\ \A x \in 1..Len(st.foreign) :
                               st.foreign[x].column # schema.columns[i].name
                     /\ \A st \in Statements :
                          st.table # schema.table \o "_" \o schema.columns[i].name

\* every target recorded by relation discovery, over all endpoints
RecordedTargets ==
    UNION { { schemas[e].to_one[name] : name \in DOMAIN schemas[e].to_one }
            \cup { schemas[e].to_many[name] : name \in DOMAIN schemas[e].to_many } :
            e \in DOMAIN schemas }

\* the resource URLs the records of the server carry in relation fields
ResourceUrls ==
    UNION { UNION { UNION { IF env.records[e][j][env.schema[e].fields[i].name].kind = "list"
                            THEN { env.records[e][j][env.schema[e].fields[i].name].l[x] :
                                   x \in 1..Len(env.records[e][j][env.schema[e].fields[i].name].l) }
                            ELSE IF env.records[e][j][env.schema[e].fields[i].name].kind = "str"
                            THEN { env.records[e][j][env.schema[e].fields[i].name].s }
                            ELSE {} :
                            i \in RelationFields(e) } :
                    j \in 1..Len(env.records[e]) } :
            e \in DOMAIN env.records }

\* C20: a recorded target is, for one of the resource URLs
\* /api/v1/<app>/<model>/<key>/ the server sent, the endpoint
\* /api/v1/<app>/<model>/ and the table ietf_dt_<app>_<model>; when that
\* endpoint is mirrored the table is the one introspection derived for it;
\* and every foreign key names the table of a mirrored endpoint, which
\* exists once all tables are created.
C20_TargetTableIsEndpointTable ==
    /\ \A rel \in RecordedTargets :
         /\ \E url \in ResourceUrls :
              /\ url = rel.refers_to_endpoint \o Split(url, "/")[6] \o "/"
              /\ rel.refers_to_endpoint
                   = "/api/v1/" \o AppOf(url) \o "/" \o ModelOf(url) \o "/"
              /\ rel.refers_to_table = "ietf_dt_" \o AppOf(url) \o "_" \o ModelOf(url)
         /\ rel.refers_to_endpoint \in DOMAIN schemas =>
              rel.refers_to_table = schemas[rel.refers_to_endpoint].table
    /\ \A st \in Statements : \A x \in 1..Len(st.foreign) :
         /\ \E e \in DOMAIN schemas : schemas[e].table = st.foreign[x].table
         /\ pc \in {"populate", "import", "done"} =>
              \E base \in Statements :
                  base.kind = "base" /\ base.table = st.foreign[x].table

\* C20 witness: every table is created; the document table has a foreign
\* key to the state table, derived from /api/v1/doc/state/5/, and the state
\* table was created under the name introspection gave it.
C20_Witness ==
    /\ pc = "populate"
    /\ "/api/v1/doc/state/5/" \in ResourceUrls
    /\ schemas["/api/v1/doc/state/"].table = "ietf_dt_doc_state"
    /\ \E st \in Statements :
         /\ st.kind = "base" /\ st.table = "ietf_dt_doc_document"
         /\ \E x \in 1..Len(st.foreign) : st.foreign[x].table = "ietf_dt_doc_state"
    /\ \E st \in Statements : st.kind = "base" /\ st.table = "ietf_dt_doc_state"

\* the scalar kinds of the scalar type mapping
ScalarKinds == {"string", "date", "datetime", "timedelta", "integer", "boolean"}

\* the kind of the uri_col column of a mirrored endpoint
UriColKind(e) == ColumnNamed(schemas[e], endpoints_to_mirror[e].uri_col).type

\* a mirrored endpoint whose uri_col is a column of scalar kind
ScalarKeyed(e) ==
    /\ e \in DOMAIN schemas
    /\ HasColumn(schemas[e], endpoints_to_mirror[e].uri_col)
    /\ UriColKind(e) \in ScalarKinds

\* every SQL type the compiler derives for the n-th endpoint is derived from
\* a scalar kind: its columns are scalars, unused, to_one columns whose
\* target is mirrored with a scalar uri_col, or to_many columns between two
\* such endpoints
TypedAfterScalars(n) ==
    LET e      == endpoints[n]
        schema == schemas[e]
    IN  \A i \in 1..Len(schema.columns) :
            LET c == schema.columns[i]
            IN  \/ c.type \in ScalarKinds \cup {None}
                \/ /\ c.type = "to_one" /\ c.name \in DOMAIN schema.to_one
                   /\ ScalarKeyed(schema.to_one[c.name].refers_to_endpoint)
                \/ /\ c.type = "to_many" /\ c.name \in DOMAIN schema.to_many
                   /\ ScalarKeyed(e)
                   /\ ScalarKeyed(schema.to_many[c.name].refers_to_endpoint)

\* C21: once create_db_table has been called for an endpoint whose SQL types
\* all derive from scalar kinds, the call has not aborted the run, and every
\* type follows the scalar type mapping (string, date, datetime, timedelta
\* give TEXT; integer, boolean give INTEGER): each scalar column of the base
\* table after its own kind, each to_one column after the kind of its
\* target's uri_col, each junction key column after the kind of the uri_col
\* it refers to.
C21_ScalarKindsMapToSqlTypes ==
    \A n \in 1..Len(endpoints) :
        (endpoints[n] \in DOMAIN schemas /\ Attempted(n) /\ TypedAfterScalars(n)) =>
            LET e      == endpoints[n]
                schema == schemas[e]
                Typed(st, name, kind) ==
                    \E x \in 1..Len(st.columns) :
                        /\ st.columns[x].name = name
                        /\ st.columns[x].type = ExpectedSqlType(kind)
            IN  /\ ~(pc = "create" /\ k = n /\ status # "running")
                /\ \E st \in Statements :
                     /\ st.kind = "base" /\ st.table = schema.table
                     /\ \A i \in 1..Len(schema.columns) :
                          LET c == schema.columns[i]
                          IN  /\ (c.type \in ScalarKinds /\ c.name # "resource_uri")
                                   => Typed(st, c.name, c.type)
                              /\ c.type = "to_one"
                                   => Typed(st, c.name,
                                            UriColKind(schema.to_one[c.name].refers_to_endpoint))
                /\ \A i \in 1..Len(schema.columns) :
                     LET c == schema.columns[i]
                     IN  c.type = "to_many" =>
                           \E st \in Statements :
                               /\ st.kind = "junction"
                               /\ st.table = schema.table \o "_" \o c.name
                               /\ st.columns[2].type = ExpectedSqlType(UriColKind(e))
                               /\ st.columns[3].type = ExpectedSqlType(
                                    UriColKind(schema.to_many[c.name].refers_to_endpoint))

\* the positions of the script after relation discovery
AfterDiscovery == {"create", "populate", "import", "done"}

\* C22 as claimed: once relation discovery has finished for all endpoints,
\* no step of create_db_table or import_db_table changes the
\* endpoint-to-schema mapping.
C22_SchemasFrozenAfterDiscovery ==
    [][(pc \in AfterDiscovery) => schemas' = schemas]_vars

\* C22 as amended: after relation discovery, import_db_table changes nothing
\* of the mapping, and create_db_table changes one thing only: the kind of a
\* to_one column of the endpoint it compiles whose target is not mirrored
\* becomes string; the endpoints, their table, sort_by and primary key,
\* their columns' names and flags, every other kind and the relation maps
\* stay as they are.
C22_OnlyUnmirroredToOneRewritten ==
    [][(pc \in AfterDiscovery) =>
         /\ DOMAIN schemas' = DOMAIN schemas
         /\ pc # "create" => schemas' = schemas
         /\ \A e \in DOMAIN schemas :
              /\ schemas'[e].api_endpoint = schemas[e].api_endpoint
              /\ schemas'[e].table = schemas[e].table
              /\ schemas'[e].sort_by = schemas[e].sort_by
              /\ schemas'[e].primary_key = schemas[e].primary_key
              /\ schemas'[e].to_one = schemas[e].to_one
              /\ schemas'[e].to_many = schemas[e].to_many
              /\ Len(schemas'[e].columns) = Len(schemas[e].columns)
              /\ \A i \in 1..Len(schemas[e].columns) :
                   LET old == schemas[e].columns[i]
                       new == schemas'[e].columns[i]
                   IN  /\ new.name = old.name
                       /\ new.unique = old.unique
                       /\ new.primary = old.primary
                       /\ new.type # old.type =>
                            /\ e = endpoints[k]
                            /\ old.type = "to_one" /\ new.type = "string"
                            /\ schemas[e].to_one[old.name].refers_to_endpoint
                                 \notin DOMAIN schemas]_vars

\* C22 witness: the run has ended after creating and importing every table;
\* the document's state column, which relation discovery resolved to the
\* unmirrored feedback endpoint, has kind string, and its to_one entry is
\* still there.
C22_Witness ==
    /\ pc = "done" /\ status = "exit0"
    /\ schemas["/api/v1/doc/document/"].columns[3].name = "state"
    /\ schemas["/api/v1/doc/document/"].columns[3].type = "string"
    /\ schemas["/api/v1/doc/document/"].to_one["state"].refers_to_endpoint
         = "/api/v1/nomcom/feedback/"
    /\ committed # <<>>

\* the records of the endpoint the import pass is streaming
Streamed == env.records[endpoints[k]]

\* a bound on the steps fetch_multi and its consumer have left: it counts the
\* records not yet taken and where the generator stands on its page
StepsLeft ==
    IF Exhausted(gen) THEN 0
    ELSE 2 * (Len(Streamed) - Len(val))
         + (IF HasItem(gen) THEN 1 ELSE IF gen.loaded THEN 2 ELSE 3)

\* the number of GETs issued for a URI
TimesRequested(uri) == Cardinality({ i \in 1..Len(requests) : requests[i].uri = uri })

\* C23: while import_db_table consumes fetch_multi, the object yielded next
\* is the record that follows, in chain order, the ones already taken, so
\* no object is yielded twice or skipped, whether its page is replayed from
\* the cache or fetched; when the generator ends every record of the chain
\* has been taken; and every step of the loop brings the end nearer, so the
\* generator ends after finitely many steps.
C23_FetchMultiYieldsTheChain ==
    /\ [](pc = "import" =>
            /\ Len(val) <= Len(Streamed)
            /\ HasItem(gen) => /\ Len(val) < Len(Streamed)
                               /\ Item(gen) = Streamed[Len(val) + 1]
            /\ Exhausted(gen) => Len(val) = Len(Streamed))
    /\ [][(pc = "import" /\ pc' = "import" /\ status' = "running") =>
            StepsLeft' < StepsLeft]_vars

\* C23 witness: the import pass has consumed the two-page stream of the
\* document endpoint to its end; the first page was replayed from the cache
\* (requested once, by relation discovery) and the second was fetched again
\* (relation discovery broke on it and left it uncached).
C23_Witness ==
    /\ pc = "import" /\ endpoints[k] = "/api/v1/doc/document/"
    /\ Exhausted(gen) /\ Len(val) = 2
    /\ TimesRequested("/api/v1/doc/document/?limit=500&order_by=name") = 1
    /\ TimesRequested("/api/v1/doc/document/?limit=500&order_by=name&offset=1") = 2

\* the URI of the first record request issued for endpoint e
FirstRecordUri(e) ==
    requests[CHOOSE i \in 1..Len(requests) :
                 /\ StartsWith(requests[i].uri, e \o "?")
                 /\ \A j \in 1..(i - 1) : ~StartsWith(requests[j].uri, e \o "?")].uri

ImapPrefix == "Shared Folders/"

\* imap.list_folders(): whether the flags hold \Noselect, and the name
FolderList ==
    << [noselect |-> TRUE,  name |-> "Shared Folders/"],
       [noselect |-> FALSE, name |-> "Shared Folders/a"],
       [noselect |-> FALSE, name |-> "Shared Folders/b"] >>

\* the mailboxes of the server: UIDVALIDITY, UIDNEXT, the UIDs a search
\* returns and those a fetch then finds gone
Mailboxes ==
    { [n \in {"Shared Folders/a", "Shared Folders/b"} |->
          IF n = "Shared Folders/a"
          THEN [uidvalidity |-> 7, uidnext |-> 3, uids |-> <<1, 2>>, gone |-> g]
          ELSE [uidvalidity |-> 7, uidnext |-> 2, uids |-> <<1>>, gone |-> {}]] :
      g \in {{}, {2}} }

\* name[len(imap_prefix):], the directory of a folder under archive_dir
FolderPath(name) == Slice(name, Len(ImapPrefix), 0)

\* the content of a file opened for writing and not yet closed, and of a
\* file written whole
Part == "<part>"
Whole == "<whole>"

\* Python's None where the archiver compares it with a UIDVALIDITY or a
\* UIDNEXT (which are positive numbers)
NoUid == 0

\* meta.json written whole
Meta(name, uidvalidity, uidnext) ==
    [content |-> Whole, name |-> name, uidvalidity |-> uidvalidity, uidnext |-> uidnext]

\* meta.json missing, and meta.json opened for writing and not yet closed
NoFile == [content |-> "<absent>", name |-> None, uidvalidity |-> NoUid, uidnext |-> NoUid]
Truncated == [content |-> Part, name |-> None, uidvalidity |-> NoUid, uidnext |-> NoUid]

\* a folder directory: meta.json, the <uid>.eml and the <uid>.tmp files
Directory(meta, eml, tmp) == [meta |-> meta, eml |-> eml, tmp |-> tmp]

\* m without key x (unlink, or the source of a rename)
MapDrop(m, x) == [y \in (DOMAIN m) \ {x} |-> m[y]]

\* the states an earlier, complete run may have left the directory of
\* folder a in: nothing, another UIDVALIDITY, an older UIDNEXT, up to date
EarlierDirectories ==
    { Directory(NoFile, EmptyMap, EmptyMap),
      Directory(Meta("Shared Folders/a", 6, 2), MapPut(EmptyMap, 1, Whole), EmptyMap),
      Directory(Meta("Shared Folders/a", 7, 2), MapPut(EmptyMap, 1, Whole), EmptyMap),
      Directory(Meta("Shared Folders/a", 7, 3),
                MapPut(MapPut(EmptyMap, 1, Whole), 2, Whole), EmptyMap) }

\* an exception: the function it was raised in, the folder the function was
\* at, and whether an IMAP call or json.load raised it
Exception(function, folder, error) ==
    [function |-> function, folder |-> folder, error |-> error]

\* download_all at its first line
NewCall == [pc |-> "start", i |-> 0, exc |-> Exception(None, None, None),
            joined |-> {}]

\* a fetch_folder call as executor.submit leaves it
NewTask == [state |-> "running", pc |-> "start", j |-> 0,
            info |-> [uidvalidity |-> NoUid, uidnext |-> NoUid],
            exc |-> Exception(None, None, None)]

InitArchive ==
    /\ env = Unused
    /\ pc = "archive"
    /\ status = "running"
    /\ requests = <<>>
    /\ cache = EmptyMap
    /\ schemas = EmptyMap
    /\ endpoints = <<>>
    /\ reported = <<>>
    /\ cats = <<>>
    /\ yielded = <<>>
    /\ k = 0
    /\ gen = NewGen(None)
    /\ ddl = <<>>
    /\ val = <<>>
    /\ pending = <<>>
    /\ committed = <<>>
    /\ prev = NoRun
    /\ coerced = <<>>
    /\ \E box \in Mailboxes : imap = [folders |-> FolderList, box |-> box]
    /\ \E d \in EarlierDirectories :
         disk = [p \in {"a", "b"} |->
                    IF p = "a" THEN d ELSE Directory(NoFile, EmptyMap, EmptyMap)]
    /\ dl = NewCall
    /\ tasks = EmptyMap
    /\ runs = [n |-> 1, cut |-> {}, kept |-> EmptyMap, fetched |-> {}]

\* an exception leaves the with block: the executor is shut down with wait
Raise(frame, e) == [frame EXCEPT !.pc = "shutdown", !.exc = e]

\* login, namespace and list_folders of download_all (lines 91-97)
DlStart ==
    /\ dl.pc = "start"
    /\ \E ok \in BOOLEAN :
         dl' = IF ok THEN [dl EXCEPT !.pc = "list", !.i = 1]
               ELSE Raise(dl, Exception("download_all", None, "IMAP"))
    /\ UNCHANGED << imap, disk, tasks, runs, mirror >>

\* the folder the listing loop is at
Folder == imap.folders[dl.i]

\* prev_state: the stored metadata, or the placeholder of lines 122-125
PrevState(meta) == IF meta = NoFile THEN Meta(None, NoUid, NoUid) ELSE meta

\* clean and fetch of lines 128-134
Clean(box, prev_state) == box.uidvalidity # prev_state.uidvalidity
Fetch(box, prev_state) ==
    Clean(box, prev_state) \/ box.uidnext # prev_state.uidnext

\* one pass of the listing loop down to the decision (lines 100-134), and
\* the submit of lines 145-147 when nothing is to be cleaned
DlExamine ==
    /\ dl.pc = "list" /\ dl.i <= Len(imap.folders)
    /\ IF Folder.noselect
       THEN /\ dl' = [dl EXCEPT !.i = @ + 1]
            /\ UNCHANGED tasks
       ELSE LET box  == imap.box[Folder.name]
                meta == disk[FolderPath(Folder.name)].meta
            IN  \E ok \in BOOLEAN :
                  IF ~ok
                  THEN /\ dl' = Raise(dl, Exception("download_all", Folder.name, "IMAP"))
                       /\ UNCHANGED tasks
                  ELSE IF meta = Truncated
                  THEN /\ dl' = Raise(dl, Exception("download_all", Folder.name,
                                                    "JSONDecodeError"))
                       /\ UNCHANGED tasks
                  ELSE IF Clean(box, PrevState(meta))
                  THEN /\ dl' = [dl EXCEPT !.pc = "clean"]
                       /\ UNCHANGED tasks
                  ELSE /\ dl' = [dl EXCEPT !.i = @ + 1]
                       /\ tasks' = IF Fetch(box, PrevState(meta))
                                   THEN MapPut(tasks, Folder.name, NewTask) ELSE tasks
    /\ UNCHANGED << imap, disk, runs, mirror >>

\* the first path of sorted(folder_path.glob("*.eml"))
FirstOf(uids) == CHOOSE x \in uids : \A y \in uids : x <= y

\* the clean branch (lines 136-143), one unlink at a time, and the submit
\* that follows it
DlClean ==
    /\ dl.pc = "clean"
    /\ LET path == FolderPath(Folder.name)
           eml  == disk[path].eml
       IN  IF DOMAIN eml # {}
           THEN /\ disk' = [disk EXCEPT ![path].eml = MapDrop(eml, FirstOf(DOMAIN eml))]
                /\ UNCHANGED << dl, tasks >>
           ELSE /\ disk' = [disk EXCEPT ![path].meta = NoFile]
                /\ tasks' = MapPut(tasks, Folder.name, NewTask)
                /\ dl' = [dl EXCEPT !.pc = "list", !.i = @ + 1]
    /\ UNCHANGED << imap, runs, mirror >>

\* a fetch_folder call has returned or raised
Completed(t) == tasks[t].state \in {"done", "failed"}

\* a join that leaves the result of the future alone
DlJoinUnevaluated ==
    /\ dl.pc = "list" /\ dl.i > Len(imap.folders)
    /\ \E t \in (DOMAIN tasks) \ dl.joined :
         /\ Completed(t)
         /\ dl' = [dl EXCEPT !.joined = @ \cup {t}]
    /\ UNCHANGED << imap, disk, tasks, runs, mirror >>

\* one pass of "for future in as_completed(tasks)": future.result() returns
\* the call's result or raises the call's exception (lines 152-153)
DlJoin ==
    /\ dl.pc = "list" /\ dl.i > Len(imap.folders)
    /\ \E t \in (DOMAIN tasks) \ dl.joined :
         /\ Completed(t)
         /\ dl' = IF tasks[t].state = "failed" THEN Raise(dl, tasks[t].exc)
                  ELSE [dl EXCEPT !.joined = @ \cup {t}]
    /\ UNCHANGED << imap, disk, tasks, runs, mirror >>

\* return folder_list (line 155), every future having been evaluated
DlReturn ==
    /\ dl.pc = "list" /\ dl.i > Len(imap.folders)
    /\ dl.joined = DOMAIN tasks
    /\ dl' = [dl EXCEPT !.pc = "returned"]
    /\ UNCHANGED << imap, disk, tasks, runs, mirror >>

\* ThreadPoolExecutor.__exit__ on an exception: shutdown(wait=True) returns
\* when every submitted call has ended, and the exception goes to the caller
DlShutdown ==
    /\ dl.pc = "shutdown"
    /\ \A t \in DOMAIN tasks : Completed(t)
    /\ dl' = [dl EXCEPT !.pc = "raised"]
    /\ UNCHANGED << imap, disk, tasks, runs, mirror >>

\* a call of fetch_folder that is at the given position
At(t, position) == tasks[t].state = "running" /\ tasks[t].pc = position

\* the call raises
Fail(t) ==
    [tasks EXCEPT ![t].state = "failed", ![t].exc = Exception("fetch_folder", t, "IMAP")]

\* the message the loop of fetch_folder is at
Uid(t) == imap.box[t].uids[tasks[t].j]

\* login, namespace, select_folder and search of fetch_folder (lines 46-57)
WkStart ==
    /\ \E t \in DOMAIN tasks :
         /\ At(t, "start")
         /\ \E ok \in BOOLEAN :
              tasks' = IF ok
                       THEN [tasks EXCEPT ![t].pc = "loop", ![t].j = 1,
                                          ![t].info =
                                              [uidvalidity |-> imap.box[t].uidvalidity,
                                               uidnext     |-> imap.box[t].uidnext]]
                       ELSE Fail(t)
    /\ UNCHANGED << imap, disk, dl, runs, mirror >>

\* one pass of "for msg_id in ..." down to the open of the .tmp file
\* (lines 58-67): a stored message is skipped, a message that is gone is
\* reported, any other is fetched
WkMessage ==
    /\ \E t \in DOMAIN tasks :
         /\ At(t, "loop") /\ tasks[t].j <= Len(imap.box[t].uids)
         /\ LET path == FolderPath(t)
            IN  IF Uid(t) \in DOMAIN disk[path].eml
                THEN /\ tasks' = [tasks EXCEPT ![t].j = @ + 1]
                     /\ UNCHANGED << disk, runs >>
                ELSE \E ok \in BOOLEAN :
                       IF ~ok
                       THEN /\ tasks' = Fail(t)
                            /\ UNCHANGED << disk, runs >>
                       ELSE /\ runs' = [runs EXCEPT !.fetched = @ \cup {<<t, Uid(t)>>}]
                            /\ IF Uid(t) \in imap.box[t].gone
                               THEN /\ tasks' = [tasks EXCEPT ![t].j = @ + 1]
                                    /\ UNCHANGED disk
                               ELSE /\ tasks' = [tasks EXCEPT ![t].pc = "write"]
                                    /\ disk' = [disk EXCEPT ![path].tmp =
                                                   MapPut(@, Uid(t), Part)]
    /\ UNCHANGED << imap, dl, mirror >>

\* outf.write(...) and the close of the .tmp file (lines 67-68)
WkWrite ==
    /\ \E t \in DOMAIN tasks :
         /\ At(t, "write")
         /\ disk' = [disk EXCEPT ![FolderPath(t)].tmp[Uid(t)] = Whole]
         /\ tasks' = [tasks EXCEPT ![t].pc = "rename"]
    /\ UNCHANGED << imap, dl, runs, mirror >>

\* tmp_path.replace(msg_path) (line 69)
WkRename ==
    /\ \E t \in DOMAIN tasks :
         /\ At(t, "rename")
         /\ LET path == FolderPath(t)
            IN  disk' = [disk EXCEPT
                           ![path].eml = MapPut(@, Uid(t), disk[path].tmp[Uid(t)]),
                           ![path].tmp = MapDrop(@, Uid(t))]
         /\ tasks' = [tasks EXCEPT ![t].pc = "loop", ![t].j = @ + 1]
    /\ UNCHANGED << imap, dl, runs, mirror >>

\* the loop is over: mkdir and open(meta_path, "w") (lines 74-77)
WkOpenMeta ==
    /\ \E t \in DOMAIN tasks :
         /\ At(t, "loop") /\ tasks[t].j > Len(imap.box[t].uids)
         /\ disk' = [disk EXCEPT ![FolderPath(t)].meta = Truncated]
         /\ tasks' = [tasks EXCEPT ![t].pc = "dump"]
    /\ UNCHANGED << imap, dl, runs, mirror >>

\* json.dump, the close of meta.json and the return (lines 78-84)
WkDumpMeta ==
    /\ \E t \in DOMAIN tasks :
         /\ At(t, "dump")
         /\ disk' = [disk EXCEPT ![FolderPath(t)].meta =
                        Meta(t, tasks[t].info.uidvalidity, tasks[t].info.uidnext)]
         /\ tasks' = [tasks EXCEPT ![t].state = "done"]
    /\ UNCHANGED << imap, dl, runs, mirror >>

\* the process is killed before download_all has ended, and the archiver is
\* run again on the same server and the archive directory as it is; the
\* folders whose fetch was cut and the messages stored by then are noted
Kill ==
    /\ runs.n = 1
    /\ dl.pc \notin {"returned", "raised"}
    /\ runs' = [n       |-> 2,
                cut     |-> { t \in DOMAIN tasks : tasks[t].state = "running" },
                kept    |-> [p \in DOMAIN disk |-> DOMAIN disk[p].eml],
                fetched |-> {}]
    /\ dl' = NewCall
    /\ tasks' = EmptyMap
    /\ UNCHANGED << imap, disk, mirror >>

NextArchive ==
    \/ DlStart
    \/ DlExamine
    \/ DlClean
    \/ DlJoin
    \/ DlReturn
    \/ DlShutdown
    \/ WkStart
    \/ WkMessage
    \/ WkWrite
    \/ WkRename
    \/ WkOpenMeta
    \/ WkDumpMeta
    \/ Kill

SpecArchive == InitArchive /\ [][NextArchive]_vars

\* download_all has ended, by return or by exception
Ended == dl.pc \in {"returned", "raised"}

\* the fetch_folder calls that raised
FailedTasks == { t \in DOMAIN tasks : tasks[t].state = "failed" }

\* C25 as claimed: when download_all has ended, every fetch it submitted has
\* ended; it has not returned while a submitted fetch has failed; and the
\* exception of any fetch that failed is the exception raised to the caller.
C25_EveryWorkerExceptionPropagates ==
    Ended =>
        /\ \A t \in DOMAIN tasks : Completed(t)
        /\ dl.pc = "returned" => FailedTasks = {}
        /\ \A t \in FailedTasks : dl.pc = "raised" /\ dl.exc = tasks[t].exc

\* C25 as amended: when download_all has ended, every fetch it submitted
\* has ended; it has returned only if every fetch returned and was
\* evaluated; if some fetch failed, download_all has raised, and the
\* exception it raised is its own (the listing failed first) or that of one
\* of the failed fetches, the exceptions of the other failed fetches being
\* dropped.
C25_OneWorkerExceptionPropagates ==
    Ended =>
        /\ \A t \in DOMAIN tasks : Completed(t)
        /\ dl.pc = "returned" => FailedTasks = {} /\ dl.joined = DOMAIN tasks
        /\ FailedTasks # {} =>
             /\ dl.pc = "raised"
             /\ \/ dl.exc.function = "download_all"
                \/ \E t \in FailedTasks : dl.exc = tasks[t].exc
        /\ (dl.pc = "raised" /\ dl.exc.function = "fetch_folder") =>
             dl.exc.folder \in FailedTasks

\* C25 witness: both submitted fetches failed, download_all has raised the
\* exception of the fetch of folder b, and the one of folder a is dropped.
C25_Witness ==
    /\ Ended
    /\ FailedTasks = {"Shared Folders/a", "Shared Folders/b"}
    /\ dl.pc = "raised"
    /\ dl.exc = Exception("fetch_folder", "Shared Folders/b", "IMAP")

\* the CREATE TABLE statement of the base table of a schema
BaseStatement(schema) ==
    CHOOSE st \in Statements : st.kind = "base" /\ st.table = schema.table

\* the value the importer is to store for a column of a record
StoredValue(c, record) ==
    IF c.type = "datetime" THEN DatetimeValue(record[c.name], env.tz)
    ELSE IF c.type = "to_one"
    THEN (IF record[c.name].kind = "null" THEN JNull
          ELSE JStr(KeySegment(record[c.name].s)))
    ELSE record[c.name]

\* C26: while an endpoint is imported, the INSERT statement of its base
\* table has as many placeholders as the table's CREATE TABLE declares
\* columns, and every row built has as many values, the x-th value being
\* the one of the record for the x-th declared column.
C26_PlaceholdersMatchColumns ==
    pc = "import" =>
        LET schema == schemas[endpoints[k]]
            st     == BaseStatement(schema)
        IN  /\ ImportCount(schema).vcount = Len(st.columns)
            /\ \A j \in 1..Len(val) :
                 /\ Len(val[j].values) = Len(st.columns)
                 /\ \A x \in 1..Len(st.columns) :
                      val[j].values[x]
                        = StoredValue(ColumnNamed(schema, st.columns[x].name),
                                      env.records[endpoints[k]][j])

\* relation discovery breaks in the stream of endpoint e
BreaksOn(e) == \E n \in 1..Len(env.records[e]) : AllValuedWithin(e, n)

\* the page of the record relation discovery breaks at
BrokenPage(e) == (ScannedPrefix(e) - 1) \div PageSize

\* C27: the cache gains a page only when the generator is resumed after the
\* last object of a fetched page; the step at which relation discovery
\* breaks stores nothing, so the page it broke on, fetched from the
\* network, is not in the cache, even when the break came at its last
\* object; when the import pass comes to that page it is fetched by a
\* second GET of the same URI, while each page before it was requested once.
C27_BrokenPageIsNotCached ==
    /\ [][/\ cache' # cache =>
               /\ gen.loaded /\ gen.miss /\ gen.idx = Len(gen.objs)
               /\ cache' = MapPut(cache, gen.uri, [next |-> gen.next, objs |-> gen.objs])
          /\ (pc = "scan" /\ HasItem(gen) /\ pc' = "discover") =>
               /\ cache' = cache
               /\ gen.miss /\ gen.uri \notin DOMAIN cache']_vars
    /\ []((pc = "import" /\ gen.loaded /\ BreaksOn(endpoints[k])) =>
            IF OffsetOfPage(gen.uri) = BrokenPage(endpoints[k])
            THEN gen.miss /\ TimesRequested(gen.uri) = 2
            ELSE IF OffsetOfPage(gen.uri) < BrokenPage(endpoints[k])
            THEN ~gen.miss /\ TimesRequested(gen.uri) = 1
            ELSE gen.miss /\ TimesRequested(gen.uri) = 1)

\* C27 witness: relation discovery broke at the second record of the
\* document endpoint, the only object of its page; the import pass has that
\* page in hand from a second GET, and the page is not in the cache.
C27_Witness ==
    /\ pc = "import" /\ endpoints[k] = "/api/v1/doc/document/"
    /\ ScannedPrefix(endpoints[k]) = 2 /\ BreaksOn(endpoints[k])
    /\ gen.loaded /\ gen.miss /\ gen.idx = 0 /\ Len(gen.objs) = 1
    /\ OffsetOfPage(gen.uri) = 1
    /\ TimesRequested(gen.uri) = 2
    /\ gen.uri \notin DOMAIN cache

\* C28: from the end of relation discovery for an endpoint, every column of
\* kind to_one has an entry in the endpoint's to_one map and every column
\* of kind to_many an entry in its to_many map, so the lookups of the
\* target table and endpoint in create_db_table find their key; and until
\* the compiler is called on the endpoint the converse holds too: the
\* entries of the to_one map are the columns of kind to_one, those of the
\* to_many map the columns of kind to_many.
C28_RelationKindIffEntry ==
    \A n \in 1..Len(endpoints) :
        (endpoints[n] \in DOMAIN schemas /\ Discovered(n)) =>
            LET schema == schemas[endpoints[n]]
                Names(kind) == { schema.columns[i].name :
                                   i \in { x \in 1..Len(schema.columns) :
                                             schema.columns[x].type = kind } }
            IN  /\ Names("to_one") \subseteq DOMAIN schema.to_one
                /\ Names("to_many") \subseteq DOMAIN schema.to_many
                /\ ~Attempted(n) => /\ Names("to_one") = DOMAIN schema.to_one
                                    /\ Names("to_many") = DOMAIN schema.to_many

\* C28 witness: relation discovery is over and no table is compiled yet; of
\* the document's two relation columns, state is resolved and still to_one,
\* and states, never given a value, is unused and has no entry.
C28_Witness ==
    /\ pc = "create" /\ k = 1 /\ status = "running"
    /\ \E n \in 1..Len(endpoints) :
         /\ endpoints[n] = "/api/v1/doc/document/"
         /\ schemas[endpoints[n]].columns[3].type = "to_one"
         /\ DOMAIN schemas[endpoints[n]].to_one = {"state"}
         /\ schemas[endpoints[n]].columns[4].name = "states"
         /\ schemas[endpoints[n]].columns[4].type = None
         /\ DOMAIN schemas[endpoints[n]].to_many = {}

(***************************************************************************)
(* The table compiler on its own: a to_many field of any name on any       *)
(* mirrored endpoint, referring to any mirrored endpoint.                  *)
(***************************************************************************)
\* the names the server may give the to_many field
JunctionFieldNames ==
    {"states", "tags", "docs", "id", "document", "state", "historicalperson", "person"}

\* the names of the fields of a schema document
FieldNames(doc) == { doc.fields[i].name : i \in 1..Len(doc.fields) }

\* the schema documents with a to_many field f added to endpoint e
JunctionDocs(e, f) ==
    LET docs == SchemaDocs("integer", <<>>)
    IN  [docs EXCEPT ![e].fields = Append(@, Field(f, "related", FALSE, FALSE, "to_many"))]

\* the worlds of the compiler: endpoint e has one record whose to_many
\* field f lists a record of endpoint t
JunctionEnvironments ==
    LET w == CHOOSE x \in Environments :
                 /\ x.schema = SchemaDocs("integer", <<>>)
                 /\ x.records["/api/v1/doc/document/"]
                        = << DocumentRecord(1, JNull, JList(<<>>)) >>
    IN  { [w EXCEPT !.schema = JunctionDocs(p[1], p[2]),
                    !.records[p[1]] = << MapPut(@[1], p[2], JList(<< p[3] \o "1/" >>)) >>] :
          p \in { q \in ServedEndpoints \X JunctionFieldNames \X ServedEndpoints :
                    q[2] \notin FieldNames(SchemaDocs("integer", <<>>)[q[1]]) } }

\* the schema of an endpoint as relation discovery leaves it after scanning
\* the endpoint's first record
DiscoveredSchema(w, e) ==
    LET schema == schema_for_endpoint(e, w.schema[e])
        found  == ScanColumns(schema.columns, 1, w.records[e][1],
                              [to_one |-> EmptyMap, to_many |-> EmptyMap,
                               found_all |-> TRUE])
    IN  Downgrade([schema EXCEPT !.to_one = found.to_one, !.to_many = found.to_many])

\* the state in which main starts creating the tables
InitJunction ==
    /\ env \in JunctionEnvironments
    /\ pc = "create"
    /\ status = "running"
    /\ requests = <<>>
    /\ cache = EmptyMap
    /\ schemas = [e \in ServedEndpoints |-> DiscoveredSchema(env, e)]
    /\ endpoints = << "/api/v1/doc/state/", "/api/v1/doc/document/",
                      "/api/v1/person/historicalperson/" >>
    /\ reported = <<>>
    /\ cats = <<>>
    /\ yielded = <<>>
    /\ k = 1
    /\ gen = NewGen(None)
    /\ ddl = <<>>
    /\ val = <<>>
    /\ pending = <<>>
    /\ committed = <<>>
    /\ prev = NoRun
    /\ coerced = <<>>
    /\ NoArchive

NextJunction ==
    \/ CreateTable
    \/ EndCreate

SpecJunction == InitJunction /\ [][NextJunction]_vars

\* C29: in every junction table the compiler emits, the three column names
\* (the synthetic id, the source-key column named after the last "_"-part of
\* the source table name, the target-key column named after the to_many
\* field) are pairwise distinct, whatever the endpoint and the field name
C29_JunctionColumnsDistinct ==
    \A st \in Statements :
        st.kind = "junction" =>
            \A i, j \in 1..Len(st.columns) :
                i # j => st.columns[i].name # st.columns[j].name

\* the folders whose fetch was cut by the kill, in the run that follows it
CutFolders == IF runs.n = 2 THEN runs.cut ELSE {}

\* the listing loop of download_all has dealt with folder f
ListingPast(f) == \E x \in 1..(dl.i - 1) : imap.folders[x].name = f

\* meta.json of a folder is written (opened for writing or dumped) only by
\* a fetch_folder call whose message loop is over
C30_MetaAfterMessages ==
    [][\A f \in DOMAIN imap.box :
          LET path == FolderPath(f)
          IN  (disk'[path].meta # disk[path].meta /\ disk'[path].meta # NoFile) =>
                  /\ f \in DOMAIN tasks
                  /\ tasks[f].j > Len(imap.box[f].uids)]_vars

\* a <uid>.eml file holds the whole message
C30_EmlComplete ==
    \A p \in DOMAIN disk : \A u \in DOMAIN disk[p].eml : disk[p].eml[u] = Whole

\* until the next run has submitted the fetch of a folder whose fetch was
\* cut, the folder's meta.json is not the server's metadata
C30_MetaDiffers ==
    \A f \in CutFolders :
        f \notin DOMAIN tasks =>
            disk[FolderPath(f)].meta
                # Meta(f, imap.box[f].uidvalidity, imap.box[f].uidnext)

\* the next run reads the metadata it finds and fetches the folder again
C30_FetchedAgain ==
    /\ runs.n = 2 => dl.exc.error # "JSONDecodeError"
    /\ \A f \in CutFolders : ListingPast(f) => f \in DOMAIN tasks

\* the next run fetches no message that was stored when the fetch was cut
C30_StoredSkipped ==
    \A f \in CutFolders :
        \A u \in runs.kept[FolderPath(f)] : <<f, u>> \notin runs.fetched

\* C30: a folder's metadata is written only after every message of the
\* folder has been processed, and a <uid>.eml file exists only with its
\* complete content; so if a folder's fetch is interrupted at any point,
\* the next run finds metadata that differs from the server's and fetches
\* the folder again, skipping the messages already stored.
C30_InterruptedFetchResumes ==
    /\ C30_MetaAfterMessages
    /\ [](/\ C30_EmlComplete
          /\ C30_MetaDiffers
          /\ C30_FetchedAgain
          /\ C30_StoredSkipped)

====
